---- MODULE Spec2Model ----
(***************************************************************************)
(* Model of the batch categorization engine of mealie-scripts              *)
(* (src/src/mealie_organizer/categorizer_core.py): MealieCategorizer.run,  *)
(* process_batch, update_recipe_metadata, the result cache and its file,   *)
(* the progress counter, safe_query_with_retry and parse_json_response.    *)
(* Spec is one run of the engine, SpecResume a run that is killed and      *)
(* started again, SpecRetry one call of safe_query_with_retry.             *)
(***************************************************************************)
EXTENDS Integers, Sequences, FiniteSets, TLC

(***************************************************************************)
(* Bounds of the model.                                                    *)
(***************************************************************************)
NumRecipes == 2        \* recipes held by the recipe store
BatchSize == 1         \* batch_size handed to the constructor
MaxWorkers == 2        \* max_workers handed to the constructor
MaxAttempts == 3       \* the largest number of attempts of one query
MaxNames == 2          \* the most names a suggestion holds for one field
MaxTags == 2           \* the most tags the server holds
MaxStrDigits == 4      \* the digits int() converts (4300 in the interpreter)

(***************************************************************************)
(* Data: slugs, taxonomy terms, recipes.                                   *)
(***************************************************************************)
RecipeSlugs == 1..NumRecipes      \* the slugs of the store's recipes
EmptySlug == 0                    \* the empty string: (entry.get("slug") or "")
UnknownSlug == NumRecipes + 1     \* a slug that no recipe of the store has
NumberSlug == -1                  \* a slug that is a JSON number, not a string

NoTerm == [name |-> "", slug |-> ""]

\* The taxonomy fetched by get_all_categories / get_all_tags; a term's id and
\* groupId travel with its slug and are not modelled.
KnownCategories == <<[name |-> "Dinner", slug |-> "dinner"],
                     [name |-> "Lunch", slug |-> "lunch"]>>
KnownTags == <<[name |-> "Quick", slug |-> "quick"]>>

\* str.strip() on the names that occur in the model
StripName(name) ==
    CASE name = " dinner " -> "dinner"
      [] name = " quick " -> "quick"
      [] OTHER -> name

\* str.lower() on the names that occur in the model
Lower(name) ==
    CASE name = "Dinner" -> "dinner"
      [] name = "DINNER" -> "dinner"
      [] name = "Lunch" -> "lunch"
      [] name = "Brunch" -> "brunch"
      [] name = "Quick" -> "quick"
      [] name = "QUICK" -> "quick"
      [] name = "Spicy" -> "spicy"
      [] OTHER -> name

\* name.strip().lower(), the key of a name in categories_by_name / tags_by_name
Key(name) == Lower(StripName(name))

RECURSIVE SeqToSet(_)
SeqToSet(s) == IF s = <<>> THEN {} ELSE {Head(s)} \cup SeqToSet(Tail(s))

Names(terms) == [i \in 1..Len(terms) |-> terms[i].name]
SlugsOf(terms) == {terms[i].slug : i \in 1..Len(terms)}

\* categories_by_name / tags_by_name: {name.strip().lower(): term}; a later
\* term with the same key replaces an earlier one, a missing key gives NoTerm.
RECURSIVE by_name(_, _)
by_name(terms, key) ==
    IF terms = <<>> THEN NoTerm
    ELSE LET last == terms[Len(terms)] IN
         IF last.name # "" /\ Key(last.name) = key THEN last
         ELSE by_name(SubSeq(terms, 1, Len(terms) - 1), key)

(***************************************************************************)
(* update_recipe_metadata, the part before the PATCH.                      *)
(***************************************************************************)
RECURSIVE append_matches_unchecked(_, _, _, _, _)
\* mutant: the loop appends a match without looking at existing_set
append_matches_unchecked(names, lookup, existing_set, target_list, added_names) ==
    IF names = <<>>
    THEN [changed |-> added_names # <<>>, added_names |-> added_names,
          existing_set |-> existing_set, target_list |-> target_list]
    ELSE LET match == by_name(lookup, Key(Head(names))) IN
         IF match = NoTerm
         THEN append_matches_unchecked(Tail(names), lookup, existing_set,
                                       target_list, added_names)
         ELSE append_matches_unchecked(Tail(names), lookup,
                                       existing_set \cup {match.slug},
                                       Append(target_list, match),
                                       Append(added_names, match.name))

RECURSIVE append_matches(_, _, _, _, _)
\* The loop of append_matches over names: existing_set and target_list are
\* threaded through, added_names collects the names of the appended terms.
append_matches(names, lookup, existing_set, target_list, added_names) ==
    IF names = <<>>
    THEN [changed |-> added_names # <<>>, added_names |-> added_names,
          existing_set |-> existing_set, target_list |-> target_list]
    ELSE LET match == by_name(lookup, Key(Head(names))) IN
         IF match = NoTerm \/ match.slug \in existing_set
         THEN append_matches(Tail(names), lookup, existing_set, target_list, added_names)
         ELSE append_matches(Tail(names), lookup, existing_set \cup {match.slug},
                             Append(target_list, match), Append(added_names, match.name))

\* mutant: the payload carries only the appended terms, a delta
update_plan_delta(recipe, category_names, tag_names, replace) ==
    LET existing_categories == IF replace THEN <<>> ELSE recipe.recipeCategory
        existing_tags == IF replace THEN <<>> ELSE recipe.tags
        cats == append_matches(category_names, KnownCategories,
                               SlugsOf(existing_categories), existing_categories, <<>>)
        tgs == append_matches(tag_names, KnownTags,
                              SlugsOf(existing_tags), existing_tags, <<>>)
    IN [changed |-> cats.changed \/ tgs.changed,
        payload |-> [fields |-> (IF cats.changed THEN {"recipeCategory"} ELSE {})
                                \cup (IF tgs.changed THEN {"tags"} ELSE {}),
                     recipeCategory |-> SubSeq(cats.target_list,
                                               Len(existing_categories) + 1,
                                               Len(cats.target_list)),
                     tags |-> SubSeq(tgs.target_list, Len(existing_tags) + 1,
                                     Len(tgs.target_list))],
        entry |-> [categories |-> Names(cats.target_list), tags |-> Names(tgs.target_list)]]

\* mutant: the lists start from the recipe's own whatever replace says
update_plan_keeping(recipe, category_names, tag_names, replace) ==
    LET cats == append_matches(category_names, KnownCategories,
                               SlugsOf(recipe.recipeCategory), recipe.recipeCategory, <<>>)
        tgs == append_matches(tag_names, KnownTags,
                              SlugsOf(recipe.tags), recipe.tags, <<>>)
    IN [changed |-> cats.changed \/ tgs.changed,
        payload |-> [fields |-> (IF cats.changed THEN {"recipeCategory"} ELSE {})
                                \cup (IF tgs.changed THEN {"tags"} ELSE {}),
                     recipeCategory |-> cats.target_list,
                     tags |-> tgs.target_list],
        entry |-> [categories |-> Names(cats.target_list), tags |-> Names(tgs.target_list)]]

\* Lines 285-328 and 348-351: the lists the recipe would get, whether anything
\* changed, the PATCH payload and the cache entry that a 200 would record.
\* payload.fields names the keys the payload holds.
update_plan(recipe, category_names, tag_names, replace) ==
    LET existing_categories == IF replace THEN <<>> ELSE recipe.recipeCategory
        existing_tags == IF replace THEN <<>> ELSE recipe.tags
        cats == append_matches(category_names, KnownCategories,
                               SlugsOf(existing_categories), existing_categories, <<>>)
        tgs == append_matches(tag_names, KnownTags,
                              SlugsOf(existing_tags), existing_tags, <<>>)
    IN [changed |-> cats.changed \/ tgs.changed,
        payload |-> [fields |-> (IF cats.changed THEN {"recipeCategory"} ELSE {})
                                \cup (IF tgs.changed THEN {"tags"} ELSE {}),
                     recipeCategory |-> cats.target_list,
                     tags |-> tgs.target_list],
        entry |-> [categories |-> Names(cats.target_list), tags |-> Names(tgs.target_list)]]

\* The recipe store applying a PATCH body: only the fields sent are replaced.
apply_patch(recipe, payload) ==
    [recipeCategory |-> IF "recipeCategory" \in payload.fields
                        THEN payload.recipeCategory ELSE recipe.recipeCategory,
     tags |-> IF "tags" \in payload.fields THEN payload.tags ELSE recipe.tags]

(***************************************************************************)
(* The cache file.                                                         *)
(***************************************************************************)
\* The file is missing, partial (opened with "w", so truncated, and json.dump
\* not finished) or holds the JSON text of a cache.
Missing == [state |-> "missing", data |-> << >>]
Partial == [state |-> "partial", data |-> << >>]
Written(c) == [state |-> "json", data |-> c]

\* load_cache: a missing or unparsable file gives the empty cache.
load_cache(f) == IF f.state = "json" THEN f.data ELSE << >>

\* cache is a function from the cached slugs to their entries; the empty
\* cache is the empty function << >>.
\* mutant: the membership test looks at a cache that is always empty
InCacheNever(slug, c) == FALSE

InCache(slug, c) == slug \in DOMAIN c
CachePut(c, slug, entry) ==
    [s \in (DOMAIN c) \cup {slug} |-> IF s = slug THEN entry ELSE c[s]]

(***************************************************************************)
(* select_targets and batch_recipes.                                       *)
(***************************************************************************)
RECURSIVE SlugSeq(_)
\* the store's recipes in the order GET /recipes returns them
SlugSeq(n) == IF n = 0 THEN <<>> ELSE Append(SlugSeq(n - 1), n)

select_targets(all_recipes, replace, mode) ==
    LET NoCats(s) == all_recipes[s].recipeCategory = <<>>
        NoTags(s) == all_recipes[s].tags = <<>>
        Either(s) == NoCats(s) \/ NoTags(s)
    IN IF replace THEN SlugSeq(NumRecipes)
       ELSE IF mode = "missing-categories" THEN SelectSeq(SlugSeq(NumRecipes), NoCats)
       ELSE IF mode = "missing-tags" THEN SelectSeq(SlugSeq(NumRecipes), NoTags)
       ELSE SelectSeq(SlugSeq(NumRecipes), Either)

RECURSIVE batch_recipes(_, _)
\* recipes[i : i + size] for i in range(0, len(recipes), size), for a size
\* that is not 0; range(0, n, size) is empty for a negative size
batch_recipes(recipes, size) ==
    IF recipes = <<>> \/ size < 0 THEN <<>>
    ELSE IF Len(recipes) <= size THEN <<recipes>>
    ELSE <<SubSeq(recipes, 1, size)>> \o batch_recipes(SubSeq(recipes, size + 1, Len(recipes)), size)

(***************************************************************************)
(* What the provider, through safe_query_with_retry, can hand back.        *)
(***************************************************************************)
\* A result is None, a truthy value that is no list ("nonlist"), a list with
\* an entry that is no JSON object ("malformed"), or a list of entries.
NoResult == [kind |-> "None", entries |-> <<>>]
NonList == [kind |-> "nonlist", entries |-> <<>>]
MalformedList == [kind |-> "malformed", entries |-> <<>>]
ListOf(entries) == [kind |-> "list", entries |-> entries]

\* The suggestions a provider makes for a recipe of the batch: nothing (absent
\* or empty categories and tags), or a category and a tag, named in another
\* letter case than the taxonomy's. An entry may also carry no slug or the
\* slug of no recipe.
Suggestions == {[categories |-> <<>>, tags |-> <<>>],
                [categories |-> <<"DINNER">>, tags |-> <<"QUICK">>]}
SuggTags == {<<>>, <<"QUICK">>}

Entry(slug, sugg) == [slug |-> slug, categories |-> sugg.categories, tags |-> sugg.tags]
Entries(slugs) ==
    {Entry(s, g) : s \in slugs, g \in Suggestions}
        \cup {Entry(s, [categories |-> <<"DINNER">>, tags |-> <<>>]) :
                 s \in {EmptySlug, UnknownSlug, NumberSlug}}
TagItems(slugs) == [slug : slugs \cup {UnknownSlug}, tags : SuggTags]

\* the non-empty lists a provider returns hold one or two entries
EntryCounts == {1, 2}
Lists(S) == UNION {[1..k -> S] : k \in EntryCounts}

\* safe_query_with_retry returns None or a truthy parsed value
QueryResults(slugs) ==
    {NoResult, NonList, MalformedList}
        \cup {ListOf(es) : es \in Lists(Entries(slugs))}
TagQueryResults(slugs) ==
    {NoResult, NonList, MalformedList} \cup {ListOf(es) : es \in Lists(TagItems(slugs))}

(***************************************************************************)
(* ensure_tags_for_entries.                                                *)
(***************************************************************************)
\* line 254: (entry.get("slug") or "").strip() raises for a slug that is a number
HasNumberSlug(entries) == \E i \in 1..Len(entries) : entries[i].slug = NumberSlug

\* missing_slugs, as a set: the batch's slugs that have an entry without tags
missing_slugs(entries, batch_slugs) ==
    {entries[i].slug : i \in {j \in 1..Len(entries) :
        /\ entries[j].slug # EmptySlug
        /\ entries[j].slug \in batch_slugs
        /\ entries[j].tags = <<>>}}

RECURSIVE deduped(_, _, _)
\* lines 261-266: the recipes of the tag prompt, each slug of missing_slugs
\* once, in the order of the entries
deduped(entries, batch_slugs, seen) ==
    IF entries = <<>> THEN <<>>
    ELSE LET entry == Head(entries)
             missing == /\ entry.slug # EmptySlug
                        /\ entry.slug \in batch_slugs
                        /\ entry.tags = <<>>
         IN IF missing /\ entry.slug \notin seen
            THEN <<entry.slug>> \o deduped(Tail(entries), batch_slugs,
                                           seen \cup {entry.slug})
            ELSE deduped(Tail(entries), batch_slugs, seen)

\* tag_map: whether slug is a key, and the tags of the last item for it
RECURSIVE tag_map(_, _)
tag_map(tag_results, slug) ==
    IF tag_results = <<>> THEN [found |-> FALSE, tags |-> <<>>]
    ELSE LET item == tag_results[Len(tag_results)] IN
         IF item.slug # EmptySlug /\ item.slug = slug
         THEN [found |-> TRUE, tags |-> item.tags]
         ELSE tag_map(SubSeq(tag_results, 1, Len(tag_results) - 1), slug)

\* mutant: the tags of the tag-only response replace the tags an entry has
merge_tags_overwriting(entries, tag_results) ==
    [i \in 1..Len(entries) |->
        IF tag_map(tag_results, entries[i].slug).found
        THEN [entries[i] EXCEPT !.tags = tag_map(tag_results, entries[i].slug).tags]
        ELSE entries[i]]

\* lines 279-282: tags are merged only into entries that have none
merge_tags(entries, tag_results) ==
    [i \in 1..Len(entries) |->
        IF tag_map(tag_results, entries[i].slug).found /\ entries[i].tags = <<>>
        THEN [entries[i] EXCEPT !.tags = tag_map(tag_results, entries[i].slug).tags]
        ELSE entries[i]]

(***************************************************************************)
(* parse_json_response.  A text is a sequence of characters; the smart     *)
(* double quotes are the characters "LDQUO" and "RDQUO", the backtick is   *)
(* "BTICK".  The texts of the model hold no backslash, so a JSON string    *)
(* holds no escape.                                                        *)
(***************************************************************************)
Quote == "\""
Fence == <<"BTICK", "BTICK", "BTICK">>   \* three backticks
Digits == {"0", "1", "2", "3", "4", "5", "6", "7", "8", "9"}
LowerLetters == {"a", "b", "c", "d", "e", "f", "g", "h", "i", "j", "k", "l", "m",
                 "n", "o", "p", "q", "r", "s", "t", "u", "v", "w", "x", "y", "z"}
UpperLetters == {"A", "B", "C", "D", "E", "F", "G", "H", "I", "J", "K", "L", "M",
                 "N", "O", "P", "Q", "R", "S", "T", "U", "V", "W", "X", "Y", "Z"}
WordChars == Digits \cup LowerLetters \cup UpperLetters \cup {"_"}   \* \w
Space == {" ", "\t", "\n", "\r"}   \* \s, str.strip() and JSON's whitespace

Min(S) == CHOOSE x \in S : \A y \in S : x <= y
Max(S) == CHOOSE x \in S : \A y \in S : y <= x

\* the first index from i on whose character is outside cs; Len(s) + 1 if none
SkipWhile(s, i, cs) ==
    Min({j \in i..(Len(s) + 1) : IF j = Len(s) + 1 THEN TRUE ELSE s[j] \notin cs})
\* the first index from i on whose character is in cs; Len(s) + 1 if none
SkipUntil(s, i, cs) ==
    Min({j \in i..(Len(s) + 1) : IF j = Len(s) + 1 THEN TRUE ELSE s[j] \in cs})
StartsWith(s, i, lit) ==
    /\ i + Len(lit) - 1 <= Len(s)
    /\ SubSeq(s, i, i + Len(lit) - 1) = lit
\* the characters of s at the indices K, in order
Pick(s, K) ==
    LET idx(k) == CHOOSE i \in K : Cardinality({j \in K : j < i}) = k - 1
    IN [k \in 1..Cardinality(K) |-> s[idx(k)]]

\* line 15: result_text.strip()
strip(s) ==
    LET last == Max({j \in 0..Len(s) : IF j = 0 THEN TRUE ELSE s[j] \notin Space})
    IN SubSeq(s, SkipWhile(s, 1, Space), last)

\* line 16: re.sub(r"^```(?:json)?\s*", "", cleaned, flags=re.IGNORECASE)
strip_leading_fence(s) ==
    IF ~StartsWith(s, 1, Fence) THEN s
    ELSE LET tagged == /\ Len(s) >= 7
                       /\ s[4] \in {"j", "J"} /\ s[5] \in {"s", "S"}
                       /\ s[6] \in {"o", "O"} /\ s[7] \in {"n", "N"}
             after == IF tagged THEN 8 ELSE 4
         IN SubSeq(s, SkipWhile(s, after, Space), Len(s))

\* line 17: re.sub(r"\s*```$", "", cleaned)
strip_trailing_fence(s) ==
    IF Len(s) >= 3 /\ SubSeq(s, Len(s) - 2, Len(s)) = Fence
    THEN LET n == Len(s) - 3
         IN SubSeq(s, 1, Max({j \in 0..n : IF j = 0 THEN TRUE ELSE s[j] \notin Space}))
    ELSE s

\* line 18: the smart quotes and the single quote become double quotes
normalize_quotes(s) ==
    [i \in 1..Len(s) |-> IF s[i] \in {"LDQUO", "RDQUO", "'"} THEN Quote ELSE s[i]]

\* line 19: re.sub(r",(\s*[\]}])", r"\1", cleaned)
drop_trailing_commas(s) ==
    LET trailing(i) ==
            /\ s[i] = ","
            /\ LET j == SkipWhile(s, i + 1, Space)
               IN IF j > Len(s) THEN FALSE ELSE s[j] \in {"]", "}"}
    IN Pick(s, {i \in 1..Len(s) : ~trailing(i)})

\* line 20: re.sub(r"(\w+):", r'"\1":', cleaned): every run of word characters
\* that a colon follows is put in double quotes
RECURSIVE quote_keys_from(_, _)
quote_keys_from(s, i) ==
    IF i > Len(s) THEN <<>>
    ELSE IF s[i] \notin WordChars THEN <<s[i]>> \o quote_keys_from(s, i + 1)
    ELSE LET e == SkipWhile(s, i, WordChars)
             followed == IF e > Len(s) THEN FALSE ELSE s[e] = ":"
         IN IF followed
            THEN <<Quote>> \o SubSeq(s, i, e - 1) \o <<Quote, ":">>
                     \o quote_keys_from(s, e + 1)
            ELSE SubSeq(s, i, e - 1) \o quote_keys_from(s, e)
quote_keys(s) == quote_keys_from(s, 1)

\* lines 15-20
clean(s) ==
    quote_keys(drop_trailing_commas(normalize_quotes(
        strip_trailing_fence(strip_leading_fence(strip(s))))))

\* A Python value that json.loads returns: None, a bool, a number (kept as
\* its literal), a str, a list of values, or a dict as its (key, value) pairs
\* in insertion order.
Value(kind, items, text) == [kind |-> kind, items |-> items, text |-> text]
None == Value("None", <<>>, <<>>)
NoParse == [ok |-> FALSE, val |-> None, end |-> 0]
\* int() of a literal with more digits than the interpreter's limit raises
\* ValueError, which is no JSONDecodeError
ValueError == Value("ValueError", <<>>, <<>>)
Overflow == [ok |-> FALSE, val |-> ValueError, end |-> 0]
Parsed(v, e) == [ok |-> TRUE, val |-> v, end |-> e]

\* json.decoder.scanstring from the character after the opening quote: a
\* control character inside the string is an error (strict mode)
scanstring(s, i) ==
    LET e == SkipUntil(s, i, {Quote, "\\", "\t", "\n", "\r"})
    IN IF e > Len(s) THEN NoParse
       ELSE IF s[e] # Quote THEN NoParse
       ELSE Parsed(Value("str", <<>>, SubSeq(s, i, e - 1)), e + 1)

\* json.scanner.NUMBER_RE: (-?(?:0|[1-9]\d*))(\.\d+)?([eE][-+]?\d+)? at i
scannumber(s, i) ==
    LET d == IF s[i] = "-" THEN i + 1 ELSE i
        is_digit(j) == IF j > Len(s) THEN FALSE ELSE s[j] \in Digits
        is_char(j, cs) == IF j > Len(s) THEN FALSE ELSE s[j] \in cs
        int_end == IF s[d] = "0" THEN d + 1 ELSE SkipWhile(s, d, Digits)
        frac_end == IF is_char(int_end, {"."}) /\ is_digit(int_end + 1)
                    THEN SkipWhile(s, int_end + 1, Digits) ELSE int_end
        exp_digits == IF is_char(frac_end + 1, {"+", "-"})
                      THEN frac_end + 2 ELSE frac_end + 1
        exp_end == IF is_char(frac_end, {"e", "E"}) /\ is_digit(exp_digits)
                   THEN SkipWhile(s, exp_digits, Digits) ELSE frac_end
    IN IF ~is_digit(d) THEN NoParse
       ELSE IF exp_end = int_end /\ int_end - d > MaxStrDigits THEN Overflow
       ELSE Parsed(Value("num", <<>>, SubSeq(s, i, exp_end - 1)), exp_end)

\* dict[key] = value
dict_put(pairs, key, val) ==
    IF \E k \in 1..Len(pairs) : pairs[k].key = key
    THEN [k \in 1..Len(pairs) |->
             IF pairs[k].key = key THEN [key |-> key, val |-> val] ELSE pairs[k]]
    ELSE Append(pairs, [key |-> key, val |-> val])

RECURSIVE scan_once(_, _)
RECURSIVE JSONArray(_, _, _)
RECURSIVE JSONObject(_, _, _)

\* json.decoder.JSONArray from the first value on; acc holds the values so far
JSONArray(s, i, acc) ==
    LET v == scan_once(s, i)
        j == SkipWhile(s, v.end, Space)
    IN IF ~v.ok THEN v
       ELSE IF j > Len(s) THEN NoParse
       ELSE IF s[j] = "]" THEN Parsed(Value("list", Append(acc, v.val), <<>>), j + 1)
       ELSE IF s[j] = ","
            THEN JSONArray(s, SkipWhile(s, j + 1, Space), Append(acc, v.val))
       ELSE NoParse

\* json.decoder.JSONObject from the opening quote of a key on
JSONObject(s, q, acc) ==
    LET k == scanstring(s, q + 1)
        c == SkipWhile(s, k.end, Space)
        v == scan_once(s, SkipWhile(s, c + 1, Space))
        j == SkipWhile(s, v.end, Space)
        pairs == dict_put(acc, k.val.text, v.val)
        q2 == SkipWhile(s, j + 1, Space)
    IN IF ~k.ok THEN NoParse
       ELSE IF c > Len(s) THEN NoParse
       ELSE IF s[c] # ":" THEN NoParse
       ELSE IF ~v.ok THEN v
       ELSE IF j > Len(s) THEN NoParse
       ELSE IF s[j] = "}" THEN Parsed(Value("dict", pairs, <<>>), j + 1)
       ELSE IF s[j] # "," THEN NoParse
       ELSE IF q2 > Len(s) THEN NoParse
       ELSE IF s[q2] # Quote THEN NoParse
       ELSE JSONObject(s, q2, pairs)

\* json.scanner.py_make_scanner._scan_once: the value that starts at i
scan_once(s, i) ==
    IF i > Len(s) THEN NoParse
    ELSE IF s[i] = Quote THEN scanstring(s, i + 1)
    ELSE IF s[i] = "{"
         THEN LET j == SkipWhile(s, i + 1, Space)
              IN IF j > Len(s) THEN NoParse
                 ELSE IF s[j] = "}" THEN Parsed(Value("dict", <<>>, <<>>), j + 1)
                 ELSE IF s[j] = Quote THEN JSONObject(s, j, <<>>)
                 ELSE NoParse
    ELSE IF s[i] = "["
         THEN LET j == SkipWhile(s, i + 1, Space)
              IN IF j > Len(s) THEN JSONArray(s, j, <<>>)
                 ELSE IF s[j] = "]" THEN Parsed(Value("list", <<>>, <<>>), j + 1)
                 ELSE JSONArray(s, j, <<>>)
    ELSE IF StartsWith(s, i, <<"n", "u", "l", "l">>) THEN Parsed(None, i + 4)
    ELSE IF StartsWith(s, i, <<"t", "r", "u", "e">>)
         THEN Parsed(Value("bool", <<>>, <<"true">>), i + 4)
    ELSE IF StartsWith(s, i, <<"f", "a", "l", "s", "e">>)
         THEN Parsed(Value("bool", <<>>, <<"false">>), i + 5)
    ELSE IF scannumber(s, i) # NoParse THEN scannumber(s, i)
    ELSE IF StartsWith(s, i, <<"N", "a", "N">>)
         THEN Parsed(Value("num", <<>>, <<"NaN">>), i + 3)
    ELSE IF StartsWith(s, i, <<"I", "n", "f", "i", "n", "i", "t", "y">>)
         THEN Parsed(Value("num", <<>>, <<"Infinity">>), i + 8)
    ELSE IF StartsWith(s, i, <<"-", "I", "n", "f", "i", "n", "i", "t", "y">>)
         THEN Parsed(Value("num", <<>>, <<"-Infinity">>), i + 9)
    ELSE NoParse

\* json.loads: one value, with nothing but whitespace around it
json_loads(s) ==
    LET v == scan_once(s, SkipWhile(s, 1, Space))
    IN IF ~v.ok THEN v
       ELSE IF SkipWhile(s, v.end, Space) <= Len(s) THEN NoParse
       ELSE v

\* lines 21-30: the strict parse of the cleaned text, else the parse of the
\* span from its first "[" to its last "]", else None
parse_json_response(result_text) ==
    LET cleaned == clean(result_text)
        first == SkipUntil(cleaned, 1, {"["})
        last == Max({j \in 0..Len(cleaned) :
                        IF j = 0 THEN TRUE ELSE cleaned[j] = "]"})
        span == json_loads(SubSeq(cleaned, first, last))
    IN IF json_loads(cleaned).ok THEN json_loads(cleaned).val
       ELSE IF json_loads(cleaned) = Overflow THEN ValueError
       ELSE IF first < last /\ span.ok THEN span.val
       ELSE None

\* bool(value): None, False, zero, the empty str, list and dict are falsy
Truthy(v) ==
    CASE v.kind = "None" -> FALSE
      [] v.kind = "bool" -> v.text = <<"true">>
      [] v.kind = "num" ->
            LET mantissa == SubSeq(v.text, 1, SkipUntil(v.text, 1, {"e", "E"}) - 1)
            IN \E k \in 1..Len(mantissa) : mantissa[k] \notin {"0", "-", "."}
      [] v.kind = "str" -> v.text # <<>>
      [] OTHER -> v.items # <<>>

(***************************************************************************)
(* State.                                                                  *)
(***************************************************************************)
VARIABLES
    replace_existing,   \* self.replace_existing
    target_mode,        \* self.target_mode
    store,              \* the recipe store: slug -> [recipeCategory, tags]
    file,               \* the cache file
    cache,              \* self.cache
    cache_lock,         \* self.cache_lock: 0 when free, else the task holding it
    progress,           \* self.progress: [done, total]
    run_pc,             \* where run() is
    all_recipes,        \* run()'s all_recipes, fetched once
    batches,            \* run()'s batches
    task,               \* the submitted futures: one process_batch call each
    collected,          \* the futures as_completed has handed to run()
    logged,             \* the futures whose exception run() has logged
    loaded,             \* history: the slugs of the cache that __init__ loaded
    flushed,            \* history: the slugs whose entry this run wrote to the file
    reconciled,         \* history: the slugs a killed earlier run had flushed
    run_no,             \* history: 1 in a first run, 2 once restarted
    rejected,           \* history: the slugs whose PATCH was answered other than 200
    query_retries,      \* self.query_retries
    rq,                 \* one call of safe_query_with_retry
    call                \* one call of a function, taken alone: its arguments and result

vars == <<replace_existing, target_mode, store, file, cache, cache_lock, progress,
          run_pc, all_recipes, batches, task, collected, logged,
          loaded, flushed, reconciled, run_no, rejected, query_retries, rq, call>>

\* what no step of a run changes
settled == <<replace_existing, target_mode, loaded, reconciled, run_no,
             query_retries, rq, call>>

TargetModes == {"missing-categories", "missing-tags", "missing-either"}

\* The recipes of the store before the run: those with an odd slug have no
\* category and no tag, the others have the category Dinner and no tag.
Bare == [recipeCategory |-> <<>>, tags |-> <<>>]
InitialStore ==
    [s \in RecipeSlugs |-> IF s % 2 = 1 THEN Bare
                           ELSE [recipeCategory |-> <<KnownCategories[1]>>, tags |-> <<>>]]

NoEntry == [categories |-> <<>>, tags |-> <<>>]

\* a cache file left by an earlier run
EarlierEntry == [categories |-> <<"Dinner">>, tags |-> <<>>]
InitialFiles == {Missing, Partial} \cup
    {Written(c) : c \in UNION {[S -> {EarlierEntry}] : S \in (SUBSET RecipeSlugs) \ {{}}}}

\* __init__ (lines 48-70)
\* line 58: max(1, QUERY_RETRIES), 3 when nothing is configured
QueryRetriesDefault == 3
QueryRetries(configured) == IF configured < 1 THEN 1 ELSE configured

\* a provider reply: None or a text
NoReply == [kind |-> "None", text |-> <<>>]
Text(t) == [kind |-> "str", text |-> t]

\* safe_query_with_retry before it is called
\* Time is counted in quarters of a second. Lines 59-61: the default of
\* query_retry_base_seconds, 1.25 s; line 198: random.uniform(0, 0.75) gives
\* one of JitterTicks quarters, 0 among them and 0.75 s not.
QueryRetryBaseDefault == 5
JitterTicks == 3

\* lines 59-61: QUERY_RETRY_BASE_SECONDS is any float the environment or the
\* configuration holds: a negative one, zero, the default
BaseSeconds == {-1, 0, QueryRetryBaseDefault}

Idle ==
    [pc |-> "idle", by_default |-> FALSE, attempts |-> 0, attempt |-> 0,
     calls |-> 0, sleeps |-> <<>>, result |-> NoReply, parsed_some |-> FALSE,
     ret |-> None, query_retry_base_seconds |-> QueryRetryBaseDefault,
     slept |-> <<>>]

InitEngine ==
    /\ replace_existing \in BOOLEAN
    /\ target_mode \in TargetModes
    /\ replace_existing => target_mode = "missing-either"
    /\ store = InitialStore
    /\ file \in InitialFiles
    /\ target_mode # "missing-either" => file = Missing
    /\ replace_existing => file \in {Missing, Written([s \in RecipeSlugs |-> EarlierEntry])}
    /\ cache = load_cache(file)
    /\ cache_lock = 0
    /\ progress = [done |-> 0, total |-> 0]
    /\ run_pc = "constructed"
    /\ all_recipes = << >>
    /\ batches = <<>>
    /\ task = <<>>
    /\ collected = {}
    /\ logged = {}
    /\ loaded = DOMAIN cache
    /\ flushed = {}
    /\ reconciled = {}
    /\ run_no = 1
    /\ rejected = {}

\* no function is called alone
NoCall == [pc |-> "none"]

Init ==
    /\ InitEngine
    /\ query_retries = QueryRetries(QueryRetriesDefault)
    /\ rq = Idle
    /\ call = NoCall

Tasks == 1..Len(task)
Finished(b) == task[b].pc \in {"done", "crashed"}
Running(b) == task[b].pc \notin {"queued", "done", "crashed"}

NewTask(batch) ==
    [pc |-> "queued", arg |-> batch, batch |-> batch, parsed |-> <<>>, count |-> 0,
     pending |-> NoEntry, tag_prompt |-> <<>>,
     processed |-> {}, missing |-> {}]

\* advance_progress(count)
advance_progress(p, count) == [p EXCEPT !.done = @ + count]

(***************************************************************************)
(* run().                                                                  *)
(***************************************************************************)
\* lines 429-446 and 450: fetch, select_targets, set_progress_total, batches
RunStart ==
    /\ run_pc = "constructed"
    /\ LET targets == select_targets(store, replace_existing, target_mode) IN
         /\ all_recipes' = store
         /\ progress' = [done |-> 0, total |-> Len(targets)]
         /\ batches' = batch_recipes(targets, BatchSize)
         /\ run_pc' = IF targets = <<>> THEN "returned" ELSE "submitting"
    /\ UNCHANGED <<settled, rejected, flushed, store, file, cache, cache_lock, task, collected, logged>>

\* lines 452-462: executor.submit for the next batch
Submit ==
    /\ run_pc = "submitting"
    /\ task' = Append(task, NewTask(batches[Len(task) + 1]))
    /\ run_pc' = IF Len(task) + 1 = Len(batches) THEN "waiting" ELSE "submitting"
    /\ UNCHANGED <<settled, rejected, flushed, store, file, cache, cache_lock, progress, all_recipes,
                   batches, collected, logged>>

\* mutant: future.result() is called outside a try block
CollectUncaught(b) ==
    /\ run_pc = "waiting"
    /\ b \notin collected
    /\ Finished(b)
    /\ collected' = collected \cup {b}
    /\ run_pc' = IF task[b].pc = "crashed" THEN "raised" ELSE run_pc
    /\ UNCHANGED <<settled, rejected, flushed, store, file, cache, cache_lock, progress, all_recipes,
                   batches, task, logged>>

\* lines 463-467: as_completed yields a finished future; its exception is logged
Collect(b) ==
    /\ run_pc = "waiting"
    /\ b \notin collected
    /\ Finished(b)
    /\ collected' = collected \cup {b}
    /\ logged' = IF task[b].pc = "crashed" THEN logged \cup {b} ELSE logged
    /\ UNCHANGED run_pc
    /\ UNCHANGED <<settled, rejected, flushed, store, file, cache, cache_lock, progress, all_recipes,
                   batches, task>>

\* mutant: run() returns without waiting for the futures
RunReturnWithoutWaiting ==
    /\ run_pc = "waiting"
    /\ run_pc' = "returned"
    /\ UNCHANGED <<settled, rejected, flushed, store, file, cache, cache_lock, progress, all_recipes,
                   batches, task, collected, logged>>

\* line 469: the with block is left once every future is done
RunReturn ==
    /\ run_pc = "waiting"
    /\ collected = Tasks
    /\ \A b \in Tasks : Finished(b)
    /\ run_pc' = "returned"
    /\ UNCHANGED <<settled, rejected, flushed, store, file, cache, cache_lock, progress, all_recipes,
                   batches, task, collected, logged>>

(***************************************************************************)
(* process_batch, one action per step of a worker thread.                  *)
(***************************************************************************)
runVars == <<run_pc, all_recipes, batches, collected, logged>>

\* a pool thread takes the task from the executor's queue (line 360)
Start(b) ==
    /\ task[b].pc = "queued"
    /\ Cardinality({o \in Tasks : Running(o)}) < MaxWorkers
    /\ task' = [task EXCEPT ![b].pc = IF replace_existing THEN "query" ELSE "count_cached"]
    /\ UNCHANGED <<settled, rejected, flushed, store, file, cache, cache_lock, progress, runVars>>

\* line 365: cached_slugs, the first read of self.cache
CountCached(b) ==
    /\ task[b].pc = "count_cached"
    /\ LET cached_slugs == SelectSeq(task[b].batch, LAMBDA s : InCache(s, cache)) IN
         task' = [task EXCEPT ![b].count = Len(cached_slugs),
                              ![b].pc = IF cached_slugs # <<>> THEN "advance_cached"
                                        ELSE "filter"]
    /\ UNCHANGED <<settled, rejected, flushed, store, file, cache, cache_lock, progress, runVars>>

\* mutant: the cached recipes are not counted
AdvanceCachedForgotten(b) ==
    /\ task[b].pc = "advance_cached"
    /\ task' = [task EXCEPT ![b].pc = "filter"]
    /\ UNCHANGED <<settled, rejected, flushed, store, file, cache, cache_lock, progress, runVars>>

\* line 367: advance_progress(len(cached_slugs))
AdvanceCached(b) ==
    /\ task[b].pc = "advance_cached"
    /\ progress' = advance_progress(progress, task[b].count)
    /\ task' = [task EXCEPT ![b].pc = "filter"]
    /\ UNCHANGED <<settled, rejected, flushed, store, file, cache, cache_lock, runVars>>

\* mutant: the cached recipes, already counted, stay in the batch
FilterKeepsCached(b) ==
    /\ task[b].pc = "filter"
    /\ task' = [task EXCEPT ![b].pc = "query"]
    /\ UNCHANGED <<settled, rejected, flushed, store, file, cache, cache_lock, progress, runVars>>

\* lines 368-370: the second read of self.cache
Filter(b) ==
    /\ task[b].pc = "filter"
    /\ LET rest == SelectSeq(task[b].batch, LAMBDA s : ~InCache(s, cache)) IN
         task' = [task EXCEPT ![b].batch = rest,
                              ![b].pc = IF rest = <<>> THEN "done" ELSE "query"]
    /\ UNCHANGED <<settled, rejected, flushed, store, file, cache, cache_lock, progress, runVars>>

\* lines 372-381: the primary query and the two failure paths
Query(b) ==
    /\ task[b].pc = "query"
    /\ \E result \in QueryResults(SeqToSet(task[b].batch)) :
         task' = [task EXCEPT ![b].parsed = result.entries,
                              ![b].count = IF result.kind \in {"None", "nonlist"}
                                           THEN Len(task[b].batch) ELSE 0,
                              ![b].pc = IF result.kind \in {"None", "nonlist"} THEN "advance"
                                        ELSE IF \/ result.kind = "malformed"
                                                \/ HasNumberSlug(result.entries)
                                             THEN "ensure_raise"
                                        ELSE "ensure"]
    /\ UNCHANGED <<settled, rejected, flushed, store, file, cache, cache_lock, progress, runVars>>

\* line 385, ensure_tags_for_entries: an entry that is no object, or whose
\* slug is no string, raises at line 254
EnsureRaise(b) ==
    /\ task[b].pc = "ensure_raise"
    /\ task' = [task EXCEPT ![b].pc = "crashed"]
    /\ UNCHANGED <<settled, rejected, flushed, store, file, cache, cache_lock, progress, runVars>>

\* ensure_tags_for_entries, lines 252-259: no entry lacks tags
EnsureNone(b) ==
    /\ task[b].pc = "ensure"
    /\ missing_slugs(task[b].parsed, SeqToSet(task[b].batch)) = {}
    /\ task' = [task EXCEPT ![b].pc = "loop"]
    /\ UNCHANGED <<settled, rejected, flushed, store, file, cache, cache_lock, progress, runVars>>

\* ensure_tags_for_entries, lines 261-282: the tag-only query hands back
\* tag_results; a list is merged, an item that is no object raises at line 273
EnsureQueryReturns(b, tag_results) ==
    /\ task[b].pc = "ensure"
    /\ LET missing == missing_slugs(task[b].parsed, SeqToSet(task[b].batch)) IN
         /\ missing # {}
         /\ tag_results \in TagQueryResults(missing)
         /\ task' = [task EXCEPT ![b].parsed = IF tag_results.kind = "list"
                                                THEN merge_tags(@, tag_results.entries)
                                                ELSE @,
                                  ![b].tag_prompt = deduped(task[b].parsed,
                                                            SeqToSet(task[b].batch), {}),
                                  ![b].pc = IF tag_results.kind = "malformed"
                                            THEN "crashed" ELSE "loop"]
    /\ UNCHANGED <<settled, rejected, flushed, store, file, cache, cache_lock, progress, runVars>>

\* ensure_tags_for_entries, lines 261-282: the tag-only query and the merge
EnsureQuery(b) ==
    \E tag_results \in TagQueryResults(SeqToSet(task[b].batch)) :
        EnsureQueryReturns(b, tag_results)

\* the plan of update_recipe_metadata for the entry at the head of parsed
HeadPlan(b) ==
    LET entry == Head(task[b].parsed) IN
    update_plan(all_recipes[entry.slug], entry.categories, entry.tags, replace_existing)

HeadInBatch(b) ==
    LET entry == Head(task[b].parsed) IN
    entry.slug # EmptySlug /\ entry.slug \in SeqToSet(task[b].batch)

\* lines 387-394 and 321-322: an entry without slug, with a slug outside the
\* batch, or that changes nothing is passed over; line 408 notes the slug of
\* an entry that update_recipe_metadata has returned for
LoopSkip(b) ==
    /\ task[b].pc = "loop"
    /\ task[b].parsed # <<>>
    /\ IF HeadInBatch(b) THEN ~HeadPlan(b).changed ELSE TRUE
    /\ task' = [task EXCEPT ![b].parsed = Tail(@),
                            ![b].processed = IF HeadInBatch(b)
                                             THEN @ \cup {Head(task[b].parsed).slug}
                                             ELSE @]
    /\ UNCHANGED <<settled, rejected, flushed, store, file, cache, cache_lock, progress, runVars>>

\* lines 324-338: the PATCH; it is answered 200, answered otherwise, or raises
LoopPatch(b) ==
    /\ task[b].pc = "loop"
    /\ task[b].parsed # <<>>
    /\ HeadInBatch(b)
    /\ HeadPlan(b).changed
    /\ LET slug == Head(task[b].parsed).slug IN
         /\ \E status \in {"200", "rejected", "raised"} :
              /\ store' = IF status = "200"
                          THEN [store EXCEPT ![slug] = apply_patch(@, HeadPlan(b).payload)]
                          ELSE store
              /\ task' = IF status = "200"
                         THEN [task EXCEPT ![b].pending = HeadPlan(b).entry,
                                           ![b].pc = "record"]
                         ELSE IF status = "rejected"
                         THEN [task EXCEPT ![b].parsed = Tail(@),
                                           ![b].processed = @ \cup {slug}]
                         ELSE [task EXCEPT ![b].pc = "crashed"]
              /\ rejected' = IF status = "rejected" THEN rejected \cup {slug} ELSE rejected
    /\ UNCHANGED <<settled, flushed, file, cache, cache_lock, progress, runVars>>

\* mutant: the entry is recorded without waiting for the cache lock
RecordUnlocked(b) ==
    /\ task[b].pc = "record"
    /\ cache_lock' = b
    /\ cache' = CachePut(cache, Head(task[b].parsed).slug, task[b].pending)
    /\ task' = [task EXCEPT ![b].pc = "save_open"]
    /\ UNCHANGED <<settled, rejected, flushed, store, file, progress, runVars>>

\* lines 347-351: the cache lock is taken and the entry is recorded
Record(b) ==
    /\ task[b].pc = "record"
    /\ cache_lock = 0
    /\ cache_lock' = b
    /\ cache' = CachePut(cache, Head(task[b].parsed).slug, task[b].pending)
    /\ task' = [task EXCEPT ![b].pc = "save_open"]
    /\ UNCHANGED <<settled, rejected, flushed, store, file, progress, runVars>>

\* save_cache, line 83: open(..., "w") truncates the file
SaveOpen(b) ==
    /\ task[b].pc = "save_open"
    /\ file' = Partial
    /\ task' = [task EXCEPT ![b].pc = "save_dump"]
    /\ UNCHANGED <<settled, rejected, flushed, store, cache, cache_lock, progress, runVars>>

\* save_cache, line 84, and the end of the with block of line 347
saved_file(c) == Written(c)

SaveDump(b) ==
    /\ task[b].pc = "save_dump"
    /\ file' = saved_file(cache)
    /\ cache_lock' = 0
    /\ flushed' = flushed \cup {Head(task[b].parsed).slug}
    /\ task' = [task EXCEPT ![b].parsed = Tail(@), ![b].pending = NoEntry,
                            ![b].processed = @ \cup {Head(task[b].parsed).slug},
                            ![b].pc = "loop"]
    /\ UNCHANGED <<settled, rejected, store, cache, progress, runVars>>

\* mutant: only the recipes the response had an entry for are counted
LoopEndCountsProcessed(b) ==
    /\ task[b].pc = "loop"
    /\ task[b].parsed = <<>>
    /\ task' = [task EXCEPT ![b].missing = SeqToSet(task[b].batch) \ task[b].processed,
                            ![b].count = Cardinality(task[b].processed),
                            ![b].pc = "advance"]
    /\ UNCHANGED <<settled, rejected, flushed, store, file, cache, cache_lock, progress, runVars>>

\* lines 410-414: after the last entry, missing is what the response had no
\* entry for, and len(recipes_by_slug) is the count
LoopEnd(b) ==
    /\ task[b].pc = "loop"
    /\ task[b].parsed = <<>>
    /\ task' = [task EXCEPT ![b].missing = SeqToSet(task[b].batch) \ task[b].processed,
                            ![b].count = Cardinality(SeqToSet(task[b].batch)),
                            ![b].pc = "advance"]
    /\ UNCHANGED <<settled, rejected, flushed, store, file, cache, cache_lock, progress, runVars>>

\* lines 375, 380 and 414: advance_progress, then process_batch returns
Advance(b) ==
    /\ task[b].pc = "advance"
    /\ progress' = advance_progress(progress, task[b].count)
    /\ task' = [task EXCEPT ![b].pc = "done"]
    /\ UNCHANGED <<settled, rejected, flushed, store, file, cache, cache_lock, runVars>>

Next ==
    \/ RunStart
    \/ Submit
    \/ RunReturn
    \/ \E b \in Tasks : Collect(b)
    \/ \E b \in Tasks : Start(b)
    \/ \E b \in Tasks : CountCached(b)
    \/ \E b \in Tasks : AdvanceCached(b)
    \/ \E b \in Tasks : Filter(b)
    \/ \E b \in Tasks : Query(b)
    \/ \E b \in Tasks : EnsureRaise(b)
    \/ \E b \in Tasks : EnsureNone(b)
    \/ \E b \in Tasks : EnsureQuery(b)
    \/ \E b \in Tasks : LoopSkip(b)
    \/ \E b \in Tasks : LoopPatch(b)
    \/ \E b \in Tasks : Record(b)
    \/ \E b \in Tasks : SaveOpen(b)
    \/ \E b \in Tasks : SaveDump(b)
    \/ \E b \in Tasks : LoopEnd(b)
    \/ \E b \in Tasks : Advance(b)

Spec == Init /\ [][Next]_vars

(***************************************************************************)
(* A run that is killed and started again.                                 *)
(***************************************************************************)
\* The process is killed, at any point of run(), and the engine is started
\* again with replace_existing = false: the store and the cache file are what
\* the killed process left, everything in memory is as __init__ makes it.
KillRestart ==
    /\ run_no = 1
    /\ run_pc # "constructed"
    /\ run_no' = 2
    /\ reconciled' = flushed
    /\ flushed' = {}
    /\ replace_existing' = FALSE
    /\ cache' = load_cache(file)
    /\ loaded' = DOMAIN load_cache(file)
    /\ cache_lock' = 0
    /\ progress' = [done |-> 0, total |-> 0]
    /\ run_pc' = "constructed"
    /\ all_recipes' = << >>
    /\ batches' = <<>>
    /\ task' = <<>>
    /\ collected' = {}
    /\ logged' = {}
    /\ rejected' = {}
    /\ UNCHANGED <<target_mode, store, file, query_retries, rq, call>>

InitResume ==
    /\ Init
    /\ ~replace_existing
    /\ target_mode = "missing-either"
    /\ file = Missing

NextResume == Next \/ KillRestart

SpecResume == InitResume /\ [][NextResume]_vars

(***************************************************************************)
(* safe_query_with_retry, one call of it.                                  *)
(***************************************************************************)
engineVars == <<replace_existing, target_mode, store, file, cache, cache_lock,
                progress, run_pc, all_recipes, batches, task, collected, logged,
                loaded, flushed, reconciled, run_no, rejected>>

\* what query_text returns: None, the empty text, prose, JSON values that are
\* falsy and truthy, a fenced list, a list and an empty list inside prose, a
\* list with a trailing comma and a dict with a bare key
Replies ==
    {NoReply} \cup {Text(t) : t \in {
        <<>>,
        <<"n", "o">>,
        <<"[", "]">>,
        <<"{", "}">>,
        <<"0">>,
        <<Quote, Quote>>,
        <<"f", "a", "l", "s", "e">>,
        <<"n", "u", "l", "l">>,
        <<"t", "r", "u", "e">>,
        <<"7">>,
        <<Quote, "a", Quote>>,
        <<"[", "1", "]">>,
        <<"{", Quote, "a", Quote, ":", "1", "}">>,
        <<"BTICK", "BTICK", "BTICK", "j", "s", "o", "n", "\n", "[", "1", "]", "\n",
          "BTICK", "BTICK", "BTICK">>,
        <<"o", "k", " ", "[", "1", "]">>,
        <<"o", "k", " ", "[", "]">>,
        <<"[", "1", ",", "]">>,
        <<"{", "a", ":", "1", "}">>}}

\* line 192: if result
HasText(reply) == reply.kind = "str" /\ reply.text # <<>>

\* the reply is text that parse_json_response parses
Parses(reply) == HasText(reply) /\ parse_json_response(reply.text) # None

\* line 189, called without retries
CallDefault ==
    /\ rq.pc = "idle"
    /\ rq' = [rq EXCEPT !.pc = "loop", !.attempts = query_retries, !.by_default = TRUE]
    /\ UNCHANGED <<engineVars, query_retries, call>>

\* line 189, called with retries
CallWith(retries) ==
    /\ rq.pc = "idle"
    /\ rq' = [rq EXCEPT !.pc = "loop", !.attempts = retries]
    /\ UNCHANGED <<engineVars, query_retries, call>>

\* line 190: whether range(attempts) yields attempt
more_attempts_off_by_one(attempt, attempts) == attempt <= attempts
more_attempts(attempt, attempts) == attempt < attempts

\* line 190: the next attempt begins
NextAttempt ==
    /\ rq.pc = "loop"
    /\ more_attempts(rq.attempt, rq.attempts)
    /\ rq' = [rq EXCEPT !.pc = "query"]
    /\ UNCHANGED <<engineVars, query_retries, call>>

\* line 200: the attempts are used up
Exhausted ==
    /\ rq.pc = "loop"
    /\ ~more_attempts(rq.attempt, rq.attempts)
    /\ rq' = [rq EXCEPT !.pc = "returned", !.ret = None]
    /\ UNCHANGED <<engineVars, query_retries, call>>

\* line 191: result = self.query_text(prompt_text)
QueryText(reply) ==
    /\ rq.pc = "query"
    /\ rq' = [rq EXCEPT !.pc = "check", !.result = reply, !.calls = @ + 1,
                        !.parsed_some = @ \/ Parses(reply)]
    /\ UNCHANGED <<engineVars, query_retries, call>>

\* lines 192-195: the parsed value is returned when it is truthy
CheckListsOnly ==
    /\ rq.pc = "check"
    /\ IF /\ HasText(rq.result)
          /\ parse_json_response(rq.result.text).kind = "list"
          /\ Truthy(parse_json_response(rq.result.text))
       THEN rq' = [rq EXCEPT !.pc = "returned",
                             !.ret = parse_json_response(rq.result.text)]
       ELSE rq' = [rq EXCEPT !.pc = "warn"]
    /\ UNCHANGED <<engineVars, query_retries, call>>
Check ==
    /\ rq.pc = "check"
    /\ IF HasText(rq.result) /\ Truthy(parse_json_response(rq.result.text))
       THEN rq' = [rq EXCEPT !.pc = "returned",
                             !.ret = parse_json_response(rq.result.text)]
       ELSE rq' = [rq EXCEPT !.pc = "warn"]
    /\ UNCHANGED <<engineVars, query_retries, call>>

\* mutant: the delay grows by base_seconds with every attempt
sleep_for_linear(base_seconds, attempt, jitter) ==
    base_seconds * (attempt + 1) + jitter

\* line 198: sleep_for, with the value random.uniform(0, 0.75) returned
sleep_for(base_seconds, attempt, jitter) ==
    base_seconds * (2 ^ attempt) + jitter

\* lines 196-199: the warning, and a sleep when an attempt remains; sleeps
\* holds the attempt numbers the call slept after, slept the lengths of the
\* sleeps with their jitter. time.sleep raises ValueError for a negative
\* length, which leaves safe_query_with_retry.
Backoff ==
    /\ rq.pc = "warn"
    /\ rq.attempt < rq.attempts - 1
    /\ \E jitter \in 0..(JitterTicks - 1) :
           LET length == sleep_for(rq.query_retry_base_seconds, rq.attempt, jitter) IN
           IF length < 0
           THEN rq' = [rq EXCEPT !.pc = "raised"]
           ELSE rq' = [rq EXCEPT !.pc = "loop", !.attempt = @ + 1,
                                 !.sleeps = Append(@, rq.attempt),
                                 !.slept = Append(@, [length |-> length,
                                                      jitter |-> jitter])]
    /\ UNCHANGED <<engineVars, query_retries, call>>

\* lines 196-197: the warning after the last attempt, without a sleep
LastAttemptFailed ==
    /\ rq.pc = "warn"
    /\ ~(rq.attempt < rq.attempts - 1)
    /\ rq' = [rq EXCEPT !.pc = "loop", !.attempt = @ + 1]
    /\ UNCHANGED <<engineVars, query_retries, call>>

InitRetry ==
    /\ InitEngine
    /\ ~replace_existing
    /\ target_mode = "missing-either"
    /\ file = Missing
    /\ query_retries \in {QueryRetries(configured) : configured \in 0..MaxAttempts}
    /\ rq \in {[Idle EXCEPT !.query_retry_base_seconds = base_seconds] :
                   base_seconds \in BaseSeconds}
    /\ call = NoCall

NextRetry ==
    \/ CallDefault
    \/ \E retries \in 0..MaxAttempts : CallWith(retries)
    \/ NextAttempt
    \/ Exhausted
    \/ \E reply \in Replies : QueryText(reply)
    \/ Check
    \/ Backoff
    \/ LastAttemptFailed

SpecRetry == InitRetry /\ [][NextRetry]_vars

(***************************************************************************)
(* update_recipe_metadata, one call of it taken alone.                     *)
(***************************************************************************)
\* the engine as __init__ leaves it, with an empty cache
InitAlone ==
    /\ InitEngine
    /\ target_mode = "missing-either"
    /\ file = Missing
    /\ query_retries = QueryRetries(QueryRetriesDefault)
    /\ rq = Idle

\* a JSON null where a name is expected: None has no strip()
Null == "<null>"
IsText(name) == name # Null

\* The names a provider suggests: a known name as the taxonomy writes it, in
\* capitals, in lower case between blanks, a name the taxonomy lacks, and for
\* the categories a null.
CategoryNames == {"Dinner", "DINNER", " dinner ", "Lunch", "Brunch", Null}
TagNames == {"Quick", "QUICK", " quick ", "Spicy"}
NameLists(S) == UNION {[1..n -> S] : n \in 0..MaxNames}

\* the recipe handed to update_recipe_metadata
RecipesAlone ==
    [recipeCategory : {<<>>, <<KnownCategories[1]>>}, tags : {<<>>, KnownTags}]

NoPlan == update_plan(Bare, <<>>, <<>>, FALSE)

\* recipe["slug"] of the recipe handed over
AloneSlug == 1

\* recipe is the dict handed over, stored the recipe as the server holds it
InitReconcile ==
    /\ InitAlone
    /\ call \in [pc : {"called"}, recipe : RecipesAlone, stored : RecipesAlone,
                 category_names : NameLists(CategoryNames),
                 tag_names : NameLists(TagNames), plan : {NoPlan}]
    /\ call.stored = call.recipe

\* what a call of update_recipe_metadata leaves alone whatever it does
aloneVars == <<replace_existing, target_mode, store, cache_lock, progress, run_pc,
               all_recipes, batches, task, collected, logged, loaded, flushed,
               reconciled, run_no, rejected, query_retries, rq>>

AllText(names) == \A i \in 1..Len(names) : IsText(names[i])

\* line 298: name.strip() of a name that is no string raises AttributeError,
\* which leaves update_recipe_metadata before anything is sent
ReconcileRaise ==
    /\ call.pc = "called"
    /\ ~(AllText(call.category_names) /\ AllText(call.tag_names))
    /\ call' = [call EXCEPT !.pc = "raised"]
    /\ UNCHANGED <<engineVars, query_retries, rq>>

\* lines 285-319: the two calls of append_matches
Reconcile ==
    /\ call.pc = "called"
    /\ AllText(call.category_names) /\ AllText(call.tag_names)
    /\ call' = [call EXCEPT !.pc = "planned",
                            !.plan = update_plan(call.recipe, call.category_names,
                                                 call.tag_names, replace_existing)]
    /\ UNCHANGED <<engineVars, query_retries, rq>>

\* mutant: the check of lines 321-322 is missing and the PATCH always sent
ReturnUnchangedSends ==
    /\ call.pc = "planned"
    /\ ~call.plan.changed
    /\ call' = [call EXCEPT !.pc = "updated",
                            !.stored = apply_patch(@, call.plan.payload)]
    /\ cache' = CachePut(cache, AloneSlug, call.plan.entry)
    /\ file' = Written(cache')
    /\ UNCHANGED aloneVars

\* lines 321-322: nothing changed, return False
ReturnUnchanged ==
    /\ call.pc = "planned"
    /\ ~call.plan.changed
    /\ call' = [call EXCEPT !.pc = "unchanged"]
    /\ UNCHANGED <<engineVars, query_retries, rq>>

\* lines 324-352: the PATCH; answered 200 the server applies it, the cache
\* entry is written and the cache saved; answered otherwise False is returned
SendPatch(status) ==
    /\ call.pc = "planned"
    /\ call.plan.changed
    /\ IF status = "200"
       THEN /\ call' = [call EXCEPT !.pc = "updated",
                                    !.stored = apply_patch(@, call.plan.payload)]
            /\ cache' = CachePut(cache, AloneSlug, call.plan.entry)
            /\ file' = Written(cache')
       ELSE /\ call' = [call EXCEPT !.pc = "rejected"]
            /\ UNCHANGED <<cache, file>>
    /\ UNCHANGED aloneVars

NextReconcile ==
    \/ Reconcile
    \/ ReconcileRaise
    \/ ReturnUnchanged
    \/ \E status \in {"200", "rejected"} : SendPatch(status)

SpecReconcile == InitReconcile /\ [][NextReconcile]_vars

(***************************************************************************)
(* build_tag_usage, filter_tag_candidates and the fallback of run(), taken *)
(* alone.  A tag name is the sequence of its characters.                   *)
(***************************************************************************)
\* the characters of the names, in the order of their code points
Ascii == <<" ",
          "A", "B", "C", "D", "E", "F", "G", "H", "I", "J", "K", "L", "M",
          "N", "O", "P", "Q", "R", "S", "T", "U", "V", "W", "X", "Y", "Z",
          "a", "b", "c", "d", "e", "f", "g", "h", "i", "j", "k", "l", "m",
          "n", "o", "p", "q", "r", "s", "t", "u", "v", "w", "x", "y", "z">>
Ord(c) == CHOOSE i \in 1..Len(Ascii) : Ascii[i] = c

\* str.lower()
lower(s) ==
    [i \in 1..Len(s) |-> IF s[i] \in UpperLetters THEN Ascii[Ord(s[i]) + 26] ELSE s[i]]

\* phrase in s
contains(s, phrase) == \E i \in 1..Len(s) : StartsWith(s, i, phrase)

\* a < b as Python compares str: by the first differing character, a proper
\* prefix first
StrLess(a, b) ==
    \E k \in 1..(Len(b)) :
        /\ k <= Len(a) + 1
        /\ SubSeq(a, 1, k - 1) = SubSeq(b, 1, k - 1)
        /\ IF k = Len(a) + 1 THEN TRUE ELSE Ord(a[k]) < Ord(b[k])

RECURSIVE sorted(_)
\* sorted(set(...)) of a set of names
sorted(S) ==
    IF S = {} THEN <<>>
    ELSE LET least == CHOOSE x \in S : \A y \in S \ {x} : StrLess(x, y)
         IN <<least>> \o sorted(S \ {least})

\* lines 223-226: the phrases that make a name noisy
NoisyPhrases ==
    {<<"h", "o", "w", " ", "t", "o", " ", "m", "a", "k", "e">>,
     <<"r", "e", "c", "i", "p", "e">>,
     <<"w", "i", "t", "h", "o", "u", "t", " ", "d", "r", "i", "p", "p", "i", "n", "g", "s">>,
     <<"f", "r", "o", "m", " ", "d", "r", "i", "p", "p", "i", "n", "g", "s">>,
     <<"f", "r", "o", "m", " ", "s", "c", "r", "a", "t", "c", "h">>}

\* mutant: the phrases are looked for in the name as written
noisy_name_as_written(name) == \E phrase \in NoisyPhrases : contains(name, phrase)

noisy_name(name) == \E phrase \in NoisyPhrases : contains(lower(name), phrase)

RECURSIVE build_tag_usage(_, _)
\* usage.get(name, 0): the tag entries of the recipes whose stripped name is
\* name
build_tag_usage(recipes, name) ==
    IF recipes = <<>> THEN 0
    ELSE Cardinality({i \in 1..Len(Head(recipes).tags) :
                         strip(Head(recipes).tags[i].name) = name})
         + build_tag_usage(Tail(recipes), name)

\* lines 221-227: the three exclusion rules
too_long(name, tag_max_name_length) ==
    tag_max_name_length > 0 /\ Len(name) > tag_max_name_length
too_rare(count, tag_min_usage) ==
    tag_min_usage > 0 /\ count < tag_min_usage

RECURSIVE candidate_names(_, _, _, _)
\* lines 214-230: the loop over tags
candidate_names(tags, recipes, tag_max_name_length, tag_min_usage) ==
    IF tags = <<>> THEN <<>>
    ELSE LET name == strip(Head(tags).name)
             count == build_tag_usage(recipes, name)
             rest == candidate_names(Tail(tags), recipes, tag_max_name_length,
                                     tag_min_usage)
         IN IF name = <<>> THEN rest
            ELSE IF \/ too_long(name, tag_max_name_length)
                    \/ too_rare(count, tag_min_usage)
                    \/ noisy_name(name)
                 THEN rest
                 ELSE <<name>> \o rest

filter_tag_candidates(tags, recipes, tag_max_name_length, tag_min_usage) ==
    sorted(SeqToSet(candidate_names(tags, recipes, tag_max_name_length, tag_min_usage)))

\* the names of the tags the server holds: two plain names, one of them also
\* between blanks, a name in lower case, a name with a noisy phrase in
\* capitals, and a blank name
TagPool ==
    {<<"V", "e", "g", "a", "n">>,
     <<" ", "V", "e", "g", "a", "n", " ">>,
     <<"Z", "e", "s", "t">>,
     <<"a", "p", "p", "l", "e">>,
     <<"M", "y", " ", "R", "E", "C", "I", "P", "E">>,
     <<" ">>}
UsedPool ==
    {<<"V", "e", "g", "a", "n">>, <<" ", "V", "e", "g", "a", "n", " ">>, <<"Z", "e", "s", "t">>}
TagRecords(S) == [name : S]
TagLists == UNION {[1..n -> TagRecords(TagPool)] : n \in 0..MaxTags}
RecipeTags == {<<>>} \cup {<<t>> : t \in TagRecords(UsedPool)}
RecipeLists == UNION {[1..n -> [tags : RecipeTags]] : n \in 0..NumRecipes}
TagMaxNameLengths == {0, 4}
TagMinUsages == {0, 1, 2}

InitFilter ==
    /\ InitAlone
    /\ ~replace_existing
    /\ call \in [pc : {"called"}, tags : TagLists, recipes : RecipeLists,
                 tag_max_name_length : TagMaxNameLengths,
                 tag_min_usage : TagMinUsages,
                 candidates : {<<>>}, tag_names : {<<>>}]

\* line 436: tag_names = self.filter_tag_candidates(tags, all_recipes)
FilterTagCandidates ==
    /\ call.pc = "called"
    /\ call' = [call EXCEPT !.pc = "filtered",
                            !.candidates = filter_tag_candidates(
                                               call.tags, call.recipes,
                                               call.tag_max_name_length,
                                               call.tag_min_usage)]
    /\ UNCHANGED <<engineVars, query_retries, rq>>

\* line 437: the candidates are kept when there are some
KeepCandidates ==
    /\ call.pc = "filtered"
    /\ call.candidates # <<>>
    /\ call' = [call EXCEPT !.pc = "prompting", !.tag_names = call.candidates]
    /\ UNCHANGED <<engineVars, query_retries, rq>>

\* line 438: the names of all the tags, stripped, without the empty name
all_tag_names(tags) ==
    sorted({strip(tags[i].name) : i \in 1..Len(tags)} \ {<<>>})

\* mutant: the empty list of candidates is used as it is
FallBackForgotten ==
    /\ call.pc = "filtered"
    /\ call.candidates = <<>>
    /\ call' = [call EXCEPT !.pc = "prompting", !.tag_names = call.candidates]
    /\ UNCHANGED <<engineVars, query_retries, rq>>

\* lines 437-439: no candidate is left, the full list is used
FallBack ==
    /\ call.pc = "filtered"
    /\ call.candidates = <<>>
    /\ call' = [call EXCEPT !.pc = "prompting", !.tag_names = all_tag_names(call.tags)]
    /\ UNCHANGED <<engineVars, query_retries, rq>>

NextFilter ==
    \/ FilterTagCandidates
    \/ KeepCandidates
    \/ FallBack

SpecFilter == InitFilter /\ [][NextFilter]_vars

(***************************************************************************)
(* parse_json_response, one call of it taken alone.                        *)
(***************************************************************************)
\* Strict JSON arrays of suggestion records as json.dumps writes them
\* without blanks: the empty array, one and two records, a record with an
\* apostrophe in a name and a record with a colon after a word in a name.
StrictArrays ==
    {<<"[", "]">>,
     <<"[", "{", Quote, "s", "l", "u", "g", Quote, ":", Quote, "a", Quote,
      ",", Quote, "c", "a", "t", "e", "g", "o", "r", "i", "e", "s", Quote,
      ":", "[", Quote, "D", "i", "n", "n", "e", "r", Quote, "]", ",",
      Quote, "t", "a", "g", "s", Quote, ":", "[", Quote, "Q", "u", "i",
      "c", "k", Quote, "]", "}", "]">>,
     <<"[", "{", Quote, "s", "l", "u", "g", Quote, ":", Quote, "a", Quote,
      ",", Quote, "t", "a", "g", "s", Quote, ":", "[", "]", "}", ",", "{",
      Quote, "s", "l", "u", "g", Quote, ":", Quote, "b", Quote, ",", Quote,
      "t", "a", "g", "s", Quote, ":", "[", Quote, "Q", "u", "i", "c", "k",
      Quote, "]", "}", "]">>,
     <<"[", "{", Quote, "s", "l", "u", "g", Quote, ":", Quote, "a", Quote,
      ",", Quote, "t", "a", "g", "s", Quote, ":", "[", Quote, "M", "o",
      "m", "'", "s", Quote, "]", "}", "]">>,
     <<"[", "{", Quote, "s", "l", "u", "g", Quote, ":", Quote, "a", Quote,
      ",", Quote, "t", "a", "g", "s", Quote, ":", "[", Quote, "S", "i",
      "d", "e", "s", ":", " ", "R", "i", "c", "e", Quote, "]", "}", "]">>}

\* What a provider makes of such an array: a code fence around it,
Fenced(text, fence) ==
    CASE fence = "none" -> text
      [] fence = "plain" -> Fence \o <<"\n">> \o text \o <<"\n">> \o Fence
      [] fence = "tagged" ->
            Fence \o <<"j", "s", "o", "n", "\n">> \o text \o <<"\n">> \o Fence

\* smart or single quotes for its double quotes,
Requoted(text, style) ==
    LET nth(i) == Cardinality({j \in 1..i : text[j] = Quote})
    IN [i \in 1..Len(text) |->
           IF text[i] # Quote \/ style = "double" THEN text[i]
           ELSE IF style = "single" THEN "'"
           ELSE IF nth(i) % 2 = 1 THEN "LDQUO" ELSE "RDQUO"]

RECURSIVE Concat(_)
Concat(seqs) == IF seqs = <<>> THEN <<>> ELSE Head(seqs) \o Concat(Tail(seqs))

\* a comma after the last element of every array and object that has one,
TrailingCommas(text) ==
    Concat([i \in 1..Len(text) |->
               IF /\ text[i] \in {"]", "}"}
                  /\ i > 1
                  /\ text[i - 1] \notin {"[", "{"}
               THEN <<",", text[i]>> ELSE <<text[i]>>])

\* and object keys without their quotes.
Unquoted(text) ==
    LET closing == {j \in 1..(Len(text) - 1) : text[j] = Quote /\ text[j + 1] = ":"}
        opening == {Max({k \in 1..(j - 1) : text[k] = Quote}) : j \in closing}
    IN Pick(text, (1..Len(text)) \ (closing \cup opening))

Rewritten(text, fence, style, commas, keys) ==
    Fenced(Requoted(IF commas
                    THEN TrailingCommas(IF keys THEN Unquoted(text) ELSE text)
                    ELSE IF keys THEN Unquoted(text) ELSE text,
                    style),
           fence)

\* texts that hold no JSON value: prose, an array and an object cut short,
\* prose with brackets
Prose ==
    {<<"n", "o", " ", "j", "s", "o", "n", " ", "h", "e", "r", "e">>,
     <<"[", "1", ",", " ", "2">>,
     <<"{", Quote, "s", "l", "u", "g", Quote, ":", Quote, "a", Quote>>,
     <<"s", "e", "e", " ", "[", "b", "r", "a", "c", "k", "e", "t", "s", "]",
      " ", "a", "n", "d", " ", "[", "m", "o", "r", "e", "]">>}

\* an integer literal one digit longer than int() converts, alone and in an
\* array
LongLiterals ==
    LET digits == [i \in 1..(MaxStrDigits + 1) |-> "1"]
    IN {digits, <<"[">> \o digits \o <<"]">>}

\* strict is the array a text was made of, empty for the other texts
InitParse ==
    /\ InitAlone
    /\ ~replace_existing
    /\ \/ \E strict \in StrictArrays, fence \in {"none", "plain", "tagged"},
             style \in {"double", "smart", "single"}, commas, keys \in BOOLEAN :
             call = [pc |-> "called", strict |-> strict,
                     text |-> Rewritten(strict, fence, style, commas, keys),
                     result |-> None]
       \/ \E text \in Prose \cup LongLiterals :
             call = [pc |-> "called", strict |-> <<>>, text |-> text, result |-> None]

\* lines 14-30, when json.loads raises what line 23 does not catch
ParseRaise ==
    /\ call.pc = "called"
    /\ parse_json_response(call.text) = ValueError
    /\ call' = [call EXCEPT !.pc = "raised"]
    /\ UNCHANGED <<engineVars, query_retries, rq>>

\* lines 14-30, returning a value or None
ParseReturn ==
    /\ call.pc = "called"
    /\ parse_json_response(call.text) # ValueError
    /\ call' = [call EXCEPT !.pc = "returned",
                            !.result = parse_json_response(call.text)]
    /\ UNCHANGED <<engineVars, query_retries, rq>>

NextParse ==
    \/ ParseRaise
    \/ ParseReturn

SpecParse == InitParse /\ [][NextParse]_vars

(***************************************************************************)
(* Properties of the engine.                                               *)
(***************************************************************************)
AllSubmitted == run_pc \in {"waiting", "returned"}

\* the slug a task is about to send, or has just sent, a PATCH for
HeadSlug(b) == Head(task[b].parsed).slug

\* the slugs of the prompt that Query(b) or EnsureQuery(b) hands to the provider
PromptSlugs(b) ==
    IF task[b].pc = "query" THEN SeqToSet(task[b].batch)
    ELSE missing_slugs(task[b].parsed, SeqToSet(task[b].batch))

\* C1: with replace_existing = false, no PATCH /recipes/{slug} is sent for a
\* slug that is already in the result cache.
C1_NoPatchOnceCached ==
    [][\A b \in Tasks :
        (~replace_existing /\ LoopPatch(b)) => ~InCache(HeadSlug(b), cache)]_vars

\* C2: with replace_existing = false, a recipe whose slug is in the cache that
\* an earlier run left is in no prompt and gets no PATCH.
C2_CachedRecipesUntouched ==
    [][\A b \in Tasks :
        ~replace_existing =>
            /\ (Query(b) \/ EnsureQuery(b)) => PromptSlugs(b) \cap loaded = {}
            /\ LoopPatch(b) => HeadSlug(b) \notin loaded]_vars

\* a run that met a cached recipe and has also updated and recorded another
C2_Witness ==
    /\ ~replace_existing
    /\ run_pc = "returned"
    /\ loaded # {}
    /\ flushed # {}

\* C3: once every batch has completed, done equals total.
C3_DoneEqualsTotal ==
    (AllSubmitted /\ \A b \in Tasks : task[b].pc = "done")
        => progress.done = progress.total

\* every batch completed: one skipped its cached recipe, one reconciled its own
C3_Witness ==
    /\ run_pc = "returned"
    /\ \A b \in Tasks : task[b].pc = "done"
    /\ progress.total = NumRecipes
    /\ \E b \in Tasks : SeqToSet(task[b].arg) \subseteq loaded /\ task[b].batch = <<>>
    /\ \E b \in Tasks : SeqToSet(task[b].arg) \cap flushed # {}

\* C4: done never exceeds total, and total does not change once
\* set_progress_total has set it.
C4_DoneAtMostTotal ==
    /\ [](progress.done <= progress.total)
    /\ [][run_pc # "constructed" => progress'.total = progress.total]_vars

\* two workers have advanced the counter and it has reached the total
C4_Witness ==
    /\ Len(task) >= 2
    /\ \A b \in Tasks : task[b].pc = "done" /\ task[b].count > 0
    /\ run_pc = "waiting"
    /\ progress.done = progress.total

\* C5: an exception of one batch is caught and logged by run(); the other
\* batches are processed to their end and run() does not raise.
C5_CrashIsContained ==
    /\ run_pc # "raised"
    /\ run_pc = "returned" =>
         \A b \in Tasks : /\ Finished(b)
                          /\ task[b].pc = "crashed" => b \in logged

\* run() has returned: one batch had crashed, another recorded its update after
C5_Witness ==
    /\ run_pc = "returned"
    /\ \E b \in Tasks : task[b].pc = "crashed"
    /\ \E b \in Tasks : task[b].pc = "done" /\ SeqToSet(task[b].arg) \cap flushed # {}

\* C6: run() returns only after every submitted task has finished, and the
\* tasks are the batches of the split, one task for each.
C6_WaitsForAllBatches ==
    run_pc = "returned" =>
        /\ Len(task) = Len(batches)
        /\ \A b \in Tasks : task[b].arg = batches[b] /\ Finished(b)

\* run() has returned after two batches that ran side by side
C6_Witness ==
    /\ run_pc = "returned"
    /\ Len(batches) >= 2
    /\ collected = Tasks

\* C7: while no worker holds the cache lock the file holds the in-memory
\* cache, and no step removes a cache entry or changes it other than by
\* recording the update of that very slug.
C7_CacheIsFlushed ==
    /\ [](cache_lock = 0 => load_cache(file) = cache)
    /\ [][\A s \in DOMAIN cache :
            /\ InCache(s, cache')
            /\ \/ cache'[s] = cache[s]
               \/ \E b \in Tasks : /\ task[b].pc = "record"
                                   /\ HeadSlug(b) = s
                                   /\ cache'[s] = task[b].pending]_vars

\* two workers have each recorded an update; both entries are in the file
C7_Witness ==
    /\ cache_lock = 0
    /\ loaded = {}
    /\ Cardinality(flushed) >= 2
    /\ file = Written(cache)
    /\ Cardinality(DOMAIN cache) >= 2

\* C8: a run restarted with replace_existing = false after a kill puts no recipe
\* that the killed run had reconciled (PATCHed, recorded and flushed to the
\* cache file) into a prompt and sends no PATCH for it.
C8_RestartSkipsReconciled ==
    [][\A b \in Tasks :
        run_no = 2 =>
            /\ (Query(b) \/ EnsureQuery(b)) => PromptSlugs(b) \cap reconciled = {}
            /\ LoopPatch(b) => HeadSlug(b) \notin reconciled]_vars

\* C9: safe_query_with_retry calls the provider at most N times, N being the
\* attempts of the call, which is at least 1 when the call takes the configured
\* default; when no attempt yielded text that parses it returns None after
\* exactly N calls.
C9_AtMostNCalls ==
    /\ rq.calls <= rq.attempts
    /\ rq.by_default => rq.attempts >= 1
    /\ (rq.pc = "returned" /\ ~rq.parsed_some) =>
           (rq.ret = None /\ rq.calls = rq.attempts)

C9_Witness ==
    /\ rq.pc = "returned"
    /\ ~rq.parsed_some
    /\ rq.by_default
    /\ rq.calls = MaxAttempts
    /\ HasText(rq.result)

\* C10 as stated: once an attempt has returned non-empty text that parses, to
\* whatever JSON value, the only step is the return of that value, with no
\* further call and no sleep.
C10_ReturnsOnAnyParsedValue ==
    [][(rq.pc = "check" /\ Parses(rq.result)) =>
          /\ rq'.pc = "returned"
          /\ rq'.ret = parse_json_response(rq.result.text)
          /\ rq'.calls = rq.calls
          /\ rq'.sleeps = rq.sleeps]_vars

\* C10 amended: once an attempt has returned non-empty text that parses to a
\* truthy value, the only step is the return of that value, with no further
\* call and no sleep.
C10_ReturnsOnTruthyValue ==
    [][(rq.pc = "check" /\ Parses(rq.result)
            /\ Truthy(parse_json_response(rq.result.text))) =>
          /\ rq'.pc = "returned"
          /\ rq'.ret = parse_json_response(rq.result.text)
          /\ rq'.calls = rq.calls
          /\ rq'.sleeps = rq.sleeps]_vars

C10_Witness ==
    /\ rq.pc = "returned"
    /\ rq.ret.kind = "dict"
    /\ rq.ret = parse_json_response(rq.result.text)
    /\ rq.calls < rq.attempts

\* C11: when the primary query of a batch returns no result or a value that
\* is no list of suggestion records, nothing is PATCHed or cached, done
\* advances by the number of recipes left in the batch, and the batch ends:
\* the task's next step is the advance, and a task that has ended steps no more.
C11_FailedBatchIsCounted ==
    [][\A b \in Tasks :
        /\ (Query(b) /\ task'[b].pc # "ensure") =>
               /\ task'[b].pc = "advance"
               /\ task'[b].count = Len(task[b].batch)
               /\ UNCHANGED <<store, cache, file>>
        /\ (task[b].pc = "advance" /\ task'[b] # task[b]) =>
               /\ task'[b].pc = "done"
               /\ progress'.done = progress.done + task[b].count
               /\ UNCHANGED <<store, cache, file>>
        /\ task[b].pc = "done" => task'[b] = task[b]]_vars

\* C12: a cache entry for a slug is written only by a task whose PATCH for
\* that slug was answered 200; a PATCH answered otherwise leaves the cache and
\* the file as they are, and no PATCH is sent again for a slug whose PATCH was
\* answered other than 200.
C12_NoRetryAfterRejection ==
    [][/\ \A s \in DOMAIN cache' :
            (s \notin DOMAIN cache \/ cache'[s] # cache[s]) =>
                \E b \in Tasks : task[b].pc = "record" /\ HeadSlug(b) = s
       /\ \A b \in Tasks :
            LoopPatch(b) =>
                /\ UNCHANGED <<cache, file>>
                /\ HeadSlug(b) \notin rejected]_vars

\* C13: the cache entry recorded after a PATCH answered 200 lists the names of
\* the categories and of the tags that the recipe holds in the store after
\* that PATCH.
C13_EntryListsStoredNames ==
    [][\A b \in Tasks :
        Record(b) =>
            cache'[HeadSlug(b)] =
                [categories |-> Names(store[HeadSlug(b)].recipeCategory),
                 tags |-> Names(store[HeadSlug(b)].tags)]]_vars


(***************************************************************************)
(* Properties of update_recipe_metadata taken alone.                       *)
(***************************************************************************)
\* no two entries of a term list have the same slug
NoDuplicateSlug(terms) ==
    \A i, j \in 1..Len(terms) : terms[i].slug = terms[j].slug => i = j

\* the call has sent a PATCH (answered 200 or not)
PatchSent == call.pc \in {"updated", "rejected"}

\* C14: a recipe whose categories and tags hold no two entries with the same
\* slug is sent, in every PATCH, recipeCategory and tags lists that hold no
\* two entries with the same slug, whatever names the suggestion repeats.
C14_PatchListsHaveNoDuplicate ==
    (/\ PatchSent
     /\ NoDuplicateSlug(call.recipe.recipeCategory)
     /\ NoDuplicateSlug(call.recipe.tags)) =>
        /\ "recipeCategory" \in call.plan.payload.fields =>
               NoDuplicateSlug(call.plan.payload.recipeCategory)
        /\ "tags" \in call.plan.payload.fields =>
               NoDuplicateSlug(call.plan.payload.tags)

\* The suggestion names Dinner twice in different letter case and Quick, a
\* tag the recipe already has, and the PATCH carrying Dinner once was sent.
C14_Witness ==
    /\ call.pc = "updated"
    /\ ~replace_existing
    /\ call.category_names = <<"DINNER", " dinner ">>
    /\ call.tag_names = <<"Quick", "QUICK">>
    /\ call.recipe = [recipeCategory |-> <<>>, tags |-> KnownTags]
    /\ call.plan.payload.fields = {"recipeCategory"}
    /\ Len(call.plan.payload.recipeCategory) = 1

\* the terms of target_list that the call appended to the list it started from
Added(existing, target_list) ==
    {target_list[i] : i \in (Len(existing) + 1)..Len(target_list)}

\* the lists update_recipe_metadata starts from (lines 286-287)
ExistingCategories ==
    IF replace_existing THEN <<>> ELSE call.recipe.recipeCategory
ExistingTags ==
    IF replace_existing THEN <<>> ELSE call.recipe.tags

\* the term is one of the fetched terms and its name is a suggested name up
\* to letter case
KnownAndNamed(term, known, names) ==
    /\ term \in SeqToSet(known)
    /\ \E i \in 1..Len(names) : IsText(names[i]) /\ Lower(names[i]) = Lower(term.name)

\* C15: every term reconciliation adds is a fetched taxonomy term whose name
\* equals a suggested name case-insensitively; a name matching no known term
\* adds nothing, creates no term and raises no error.
C15_AddsOnlyNamedKnownTerms ==
    /\ call.pc # "raised"
    /\ call.pc \in {"planned", "unchanged", "updated", "rejected"} =>
           /\ \A term \in Added(ExistingCategories, call.plan.payload.recipeCategory) :
                  KnownAndNamed(term, KnownCategories, call.category_names)
           /\ \A term \in Added(ExistingTags, call.plan.payload.tags) :
                  KnownAndNamed(term, KnownTags, call.tag_names)

\* the terms of target_list whose slug the recipe handed over does not hold
NewFor(terms, target_list) ==
    {target_list[i] : i \in {j \in 1..Len(target_list) :
                                 target_list[j].slug \notin SlugsOf(terms)}}

\* the call is past append_matches
Planned == call.pc \in {"planned", "unchanged", "updated", "rejected"}

\* the call left the server's recipe, self.cache and the cache file alone
LeftAlone ==
    /\ call.stored = call.recipe
    /\ cache = << >>
    /\ file = Missing

\* C16 as stated: a call whose reconciliation yields no category and no tag
\* that the recipe lacks sends no PATCH and changes neither the recipe nor
\* the cache in memory nor the cache file.
C16_NothingNewNothingSent ==
    (/\ Planned
     /\ NewFor(call.recipe.recipeCategory, call.plan.payload.recipeCategory) = {}
     /\ NewFor(call.recipe.tags, call.plan.payload.tags) = {}) =>
        /\ ~PatchSent
        /\ LeftAlone

\* C16 amended: a call whose reconciliation appends no term to the lists it
\* started from (the recipe's own, or the empty lists when replace_existing
\* is set) sends no PATCH and changes neither the recipe nor the cache in
\* memory nor the cache file.
C16_NothingAppendedNothingSent ==
    (/\ Planned
     /\ Added(ExistingCategories, call.plan.payload.recipeCategory) = {}
     /\ Added(ExistingTags, call.plan.payload.tags) = {}) =>
        /\ ~PatchSent
        /\ LeftAlone

\* The suggestion names only what the recipe has and a name the taxonomy
\* lacks, and the call returned without a PATCH.
C16_Witness ==
    /\ call.pc = "unchanged"
    /\ ~replace_existing
    /\ call.recipe = [recipeCategory |-> <<KnownCategories[1]>>, tags |-> KnownTags]
    /\ call.category_names = <<"DINNER", "Brunch">>
    /\ call.tag_names = <<" quick ">>

(***************************************************************************)
(* Properties of the tag filter.                                           *)
(***************************************************************************)
\* the stripped names of the tags that are not empty
TagNameSet(tags) == {strip(tags[i].name) : i \in 1..Len(tags)} \ {<<>>}

\* the list is in ascending order and holds no name twice
StrictlySorted(names) ==
    \A i \in 1..(Len(names) - 1) : StrLess(names[i], names[i + 1])

\* C17 as stated: with a non-empty tag list the prompts get a non-empty tag
\* vocabulary, the full list of tag names when the filter left nothing.
C17_VocabularyNeverEmpty ==
    (call.pc = "prompting" /\ call.tags # <<>>) =>
        /\ call.tag_names # <<>>
        /\ call.candidates = <<>> =>
               /\ SeqToSet(call.tag_names) = TagNameSet(call.tags)
               /\ StrictlySorted(call.tag_names)

\* C17 amended: with a tag list that holds a name that is not blank the
\* prompts get a non-empty tag vocabulary, the full list of tag names when
\* the filter left nothing.
C17_VocabularyOfNamedTags ==
    (call.pc = "prompting" /\ TagNameSet(call.tags) # {}) =>
        /\ call.tag_names # <<>>
        /\ call.candidates = <<>> =>
               /\ SeqToSet(call.tag_names) = TagNameSet(call.tags)
               /\ StrictlySorted(call.tag_names)

\* Every tag was filtered out, one as too long and one as noisy, and the
\* prompts got both names.
C17_Witness ==
    /\ call.pc = "prompting"
    /\ call.candidates = <<>>
    /\ call.tag_max_name_length = 4
    /\ Len(call.tags) = 2
    /\ Len(call.tag_names) = 2

\* the recipes that hold a tag of that name
RecipesUsing(recipes, name) ==
    {i \in 1..Len(recipes) :
        \E j \in 1..Len(recipes[i].tags) : strip(recipes[i].tags[j].name) = name}

\* one of the exclusion rules holds for the name
Excluded(name) ==
    \/ call.tag_max_name_length > 0 /\ Len(name) > call.tag_max_name_length
    \/ /\ call.tag_min_usage > 0
       /\ Cardinality(RecipesUsing(call.recipes, name)) < call.tag_min_usage
    \/ \E phrase \in NoisyPhrases : \E i \in 1..Len(name) :
           StartsWith(lower(name), i, phrase)

C19_RecoversTheStrictArray ==
    (call.pc = "returned" /\ call.strict # <<>>) =>
        call.result = json_loads(call.strict).val

\* C20: no exception leaves parse_json_response, and a text that holds no
\* JSON value gives None.
C20_NoExceptionEscapes ==
    /\ call.pc # "raised"
    /\ (call.pc = "returned" /\ call.text \in Prose) => call.result = None

(***************************************************************************)
(* Properties of process_batch.                                            *)
(***************************************************************************)
\* the worker has looked its recipes up in the cache and has not yet
\* written the entry of the recipe it is at
CheckedNotWritten(b) ==
    task[b].pc \in {"advance_cached", "filter", "query", "ensure", "loop", "record"}

\* C25 as stated: between a worker's membership check and its write of the
\* cache entry no other worker reads or writes the cache.
C25_CheckAndWriteAreOneSection ==
    [][\A b, o \in Tasks :
        (b # o /\ ~replace_existing /\ CheckedNotWritten(b)) =>
            ~(CountCached(o) \/ Filter(o) \/ Record(o))]_vars

\* C25 amended: the write of a cache entry and the saving of the cache file
\* are made by one worker at a time, the holder of the cache lock; the
\* membership checks are made without the lock.
C25_WritesAreSerialized ==
    /\ [](\A b \in Tasks : task[b].pc \in {"save_open", "save_dump"} <=> cache_lock = b)
    /\ [][(cache' # cache \/ file' # file) =>
             \E b \in Tasks : /\ task[b].pc \in {"record", "save_open", "save_dump"}
                              /\ IF task[b].pc = "record"
                                 THEN cache_lock = 0 /\ cache_lock' = b
                                 ELSE cache_lock = b]_vars

\* one worker is saving the file under the lock while another, its PATCH
\* answered, waits to record its entry
C25_Witness ==
    \E b, o \in Tasks :
        /\ task[b].pc = "save_dump"
        /\ cache_lock = b
        /\ task[o].pc = "record"

\* the recipes of the batch for which the first response holds an entry
\* without tags
TaglessInBatch(b) ==
    {s \in SeqToSet(task[b].batch) :
        \E i \in 1..Len(task[b].parsed) :
            task[b].parsed[i].slug = s /\ task[b].parsed[i].tags = <<>>}

\* the worker is in ensure_tags_for_entries
InEnsure(b) == task[b].pc \in {"ensure", "ensure_raise"}

\* C26: the tag-only query of a batch is issued if and only if the first
\* response holds an entry without tags for a recipe of the batch; its prompt
\* holds each such recipe once and no other recipe, so a recipe without an
\* entry is not in it, and a batch is queried at most once by each prompt.
C26_BackfillForTaglessEntries ==
    [][\A b \in Tasks :
        /\ (InEnsure(b) /\ task'[b] # task[b]) =>
              /\ EnsureQuery(b) <=> TaglessInBatch(b) # {}
              /\ EnsureQuery(b) =>
                    /\ SeqToSet(task'[b].tag_prompt) = TaglessInBatch(b)
                    /\ Len(task'[b].tag_prompt) = Cardinality(TaglessInBatch(b))
        /\ ~InEnsure(b) => task'[b].tag_prompt = task[b].tag_prompt
        /\ task[b].pc \in {"ensure", "ensure_raise", "loop", "record", "save_open",
                           "save_dump", "advance", "done", "crashed"} =>
              task'[b].pc # "query"
        /\ task[b].pc \in {"loop", "record", "save_open", "save_dump", "advance",
                           "done", "crashed"} =>
              ~InEnsure(b)']_vars


\* C27: the tag-only query changes only suggestion entries that have no tags:
\* an entry with tags keeps them, every entry keeps its slug and categories,
\* and an entry's tags change only to tags the tag-only response gives for
\* its slug; when the query fails (None) or hands back a value that is no
\* list, every entry stays as it was and the batch goes on to reconciliation.
C27_MergedOnlyWhereNoTags ==
    [][\A b \in Tasks :
        /\ (task[b].pc = "ensure" /\ task'[b] # task[b]) =>
              /\ Len(task'[b].parsed) = Len(task[b].parsed)
              /\ \A i \in 1..Len(task[b].parsed) :
                    /\ task'[b].parsed[i].slug = task[b].parsed[i].slug
                    /\ task'[b].parsed[i].categories = task[b].parsed[i].categories
                    /\ task[b].parsed[i].tags # <<>> =>
                          task'[b].parsed[i] = task[b].parsed[i]
        /\ task[b].pc # "ensure" =>
              \/ task'[b].parsed = task[b].parsed
              \/ task[b].pc = "query"
              \/ task'[b].parsed = Tail(task[b].parsed)
        /\ \A tag_results \in {NoResult, NonList} :
              EnsureQueryReturns(b, tag_results) =>
                  /\ task'[b].parsed = task[b].parsed
                  /\ task'[b].pc = "loop"]_vars
\* A tag-only query has merged tags into an entry that had none (an entry
\* without categories has tags only by the merge) next to an entry of the
\* same response that had tags, and another has failed before reconciliation.
C27_Witness ==
    /\ \E b \in Tasks :
          /\ task[b].pc = "loop"
          /\ task[b].tag_prompt # <<>>
          /\ \E i, j \in 1..Len(task[b].parsed) :
                /\ task[b].parsed[i].categories = <<>>
                /\ task[b].parsed[i].tags # <<>>
                /\ task[b].parsed[j].categories # <<>>
                /\ task[b].parsed[j].tags # <<>>
    /\ \E b \in Tasks :
          /\ task[b].pc = "loop"
          /\ task[b].tag_prompt # <<>>
          /\ \A i \in 1..Len(task[b].parsed) : task[b].parsed[i].tags = <<>>


\* C28 as stated: when the loop over the response of a batch has ended, done
\* advances by the number of recipes of the batch that the response had an
\* entry for.
C28_CountsMatchedRecipes ==
    [][\A b \in Tasks :
        LoopEnd(b) =>
            task'[b].count = Cardinality(SeqToSet(task[b].batch) \cap task[b].processed)]_vars

\* C28 amended: when the loop over the response of a batch has ended, done
\* advances by the number of recipes the batch was queried with, whether the
\* response had an entry for a recipe or not (missing) and whether any field
\* of it changed or not.
C28_CountsQueriedRecipes ==
    [][\A b \in Tasks :
        /\ (task[b].pc = "loop" /\ task'[b].pc = "advance") =>
              /\ task'[b].count = Len(task[b].batch)
              /\ task'[b].missing = SeqToSet(task[b].batch) \ task[b].processed
              /\ progress' = progress
        /\ (task[b].pc = "advance" /\ task'[b] # task[b]) =>
              /\ progress'.done = progress.done + task[b].count
              /\ task'[b].pc = "done"]_vars
\* A batch has been counted in full although the response had an entry for
\* none of its recipes, and another although nothing of its recipe changed.
C28_Witness ==
    /\ \E b \in Tasks :
          /\ task[b].pc = "done"
          /\ task[b].missing = SeqToSet(task[b].batch)
          /\ task[b].count = Len(task[b].batch)
          /\ progress.done >= task[b].count
    /\ \E b \in Tasks :
          /\ task[b].pc = "done"
          /\ task[b].processed = SeqToSet(task[b].batch)
          /\ \A i \in 1..Len(task[b].batch) :
                store[task[b].batch[i]] = all_recipes[task[b].batch[i]]


CachedOf(b) == {s \in SeqToSet(task[b].arg) : InCache(s, cache)}

OffBatch(b, entry) == entry.slug = EmptySlug \/ entry.slug \notin SeqToSet(task[b].batch)

\* C30: every PATCH of a batch is for a recipe of the batch and changes that
\* recipe alone; the entry at the head of the loop whose slug is empty or is
\* the slug of no recipe of the batch is passed over with no PATCH, no write of
\* the cache or its file and no error, and no batch ends by an exception
\* because its response holds such an entry.
C30_OffBatchEntriesAreIgnored ==
    [][\A b \in Tasks :
        /\ LoopPatch(b) =>
              /\ Head(task[b].parsed).slug \in SeqToSet(task[b].batch)
              /\ \A s \in DOMAIN store :
                    s # Head(task[b].parsed).slug => store'[s] = store[s]
        /\ (task[b].pc = "loop" /\ task[b].parsed # <<>> /\ task'[b] # task[b]
                /\ OffBatch(b, Head(task[b].parsed))) =>
              /\ task'[b].pc = "loop"
              /\ task'[b].parsed = Tail(task[b].parsed)
              /\ task'[b].processed = task[b].processed
              /\ UNCHANGED <<store, cache, file>>
        /\ (task[b].pc = "record" /\ task'[b] # task[b]) =>
              /\ Head(task[b].parsed).slug \in SeqToSet(task[b].batch)
              /\ \A s \in DOMAIN cache' :
                    s # Head(task[b].parsed).slug =>
                        s \in DOMAIN cache /\ cache'[s] = cache[s]
        /\ (task[b].pc = "ensure_raise" /\ task'[b].pc = "crashed") =>
              \A i \in 1..Len(task[b].parsed) : ~OffBatch(b, task[b].parsed[i])]_vars


(***************************************************************************)
(* Target selection: main() derives the target mode from the command line, *)
(* run() selects the targets.  replace_existing is args.recat.             *)
(***************************************************************************)
\* the command line's --missing-tags and --missing-categories
Args == [missing_tags : BOOLEAN, missing_categories : BOOLEAN]

\* mutant: both flags together are read as the first of them
derive_target_mode_first_flag(args) ==
    IF args.missing_tags THEN "missing-tags"
    ELSE IF args.missing_categories THEN "missing-categories"
    ELSE "missing-either"

\* recipe_categorizer.py, lines 36-43
derive_target_mode(args) ==
    IF args.missing_tags /\ args.missing_categories THEN "missing-either"
    ELSE IF args.missing_tags THEN "missing-tags"
    ELSE IF args.missing_categories THEN "missing-categories"
    ELSE "missing-either"

\* the recipes GET /recipes returns, each with or without categories and tags
StoresAlone == [RecipeSlugs -> RecipesAlone]

InitTargets ==
    /\ InitAlone
    /\ call \in [pc : {"main"}, args : Args, all_recipes : StoresAlone,
                 target_mode : {"unset"}, targets : {<<>>}]

\* main(), line 217: target_mode=derive_target_mode(args)
DeriveTargetMode ==
    /\ call.pc = "main"
    /\ call' = [call EXCEPT !.pc = "constructed",
                            !.target_mode = derive_target_mode(call.args)]
    /\ UNCHANGED <<engineVars, query_retries, rq>>

\* run(), line 441: targets = self.select_targets(all_recipes)
SelectTargets ==
    /\ call.pc = "constructed"
    /\ call' = [call EXCEPT !.pc = "selected",
                            !.targets = select_targets(call.all_recipes, replace_existing,
                                                       call.target_mode)]
    /\ UNCHANGED <<engineVars, query_retries, rq>>

NextTargets ==
    \/ DeriveTargetMode
    \/ SelectTargets

SpecTargets == InitTargets /\ [][NextTargets]_vars

\* the slugs of a list of recipes, each once and in the store's order
InStoreOrder(targets) ==
    \A i, j \in 1..Len(targets) : i < j => targets[i] < targets[j]

\* C22: derive_target_mode gives missing-tags when only --missing-tags is set,
\* missing-categories when only --missing-categories is set and missing-either
\* otherwise; select_targets then returns, in the store's order, exactly the
\* recipes without categories, without tags, or without either of the two,
\* and every recipe when replace_existing is set.
C22_TargetsFollowTheMode ==
    /\ call.pc \in {"constructed", "selected"} =>
          /\ (call.args.missing_tags /\ ~call.args.missing_categories)
                 => call.target_mode = "missing-tags"
          /\ (call.args.missing_categories /\ ~call.args.missing_tags)
                 => call.target_mode = "missing-categories"
          /\ (call.args.missing_tags <=> call.args.missing_categories)
                 => call.target_mode = "missing-either"
    /\ call.pc = "selected" =>
          /\ InStoreOrder(call.targets)
          /\ SeqToSet(call.targets) =
                {s \in RecipeSlugs :
                    \/ replace_existing
                    \/ /\ call.target_mode = "missing-categories"
                       /\ call.all_recipes[s].recipeCategory = <<>>
                    \/ /\ call.target_mode = "missing-tags"
                       /\ call.all_recipes[s].tags = <<>>
                    \/ /\ call.target_mode = "missing-either"
                       /\ \/ call.all_recipes[s].recipeCategory = <<>>
                          \/ call.all_recipes[s].tags = <<>>}
\* With both flags set and without --recat, a recipe with tags and no
\* category is selected and a recipe with both is not.
C22_Witness ==
    /\ call.pc = "selected"
    /\ ~replace_existing
    /\ call.args.missing_tags /\ call.args.missing_categories
    /\ \E s \in SeqToSet(call.targets) :
          call.all_recipes[s].tags # <<>> /\ call.all_recipes[s].recipeCategory = <<>>
    /\ \E s \in RecipeSlugs : s \notin SeqToSet(call.targets)


(***************************************************************************)
(* main() of recipe_categorizer.py: the credentials, the provider, the     *)
(* construction of the engine and the three GETs that run() starts with,   *)
(* followed by the run itself.                                             *)
(***************************************************************************)
\* what the environment holds under a key: nothing, or a value
Secrets == {"", "key"}
\* the provider named on the command line or in the configuration
Providers == {"ollama", "chatgpt", "llama"}
\* run(), lines 429-431: the GETs of recipes, categories and tags
InitialGets == 3

InitMain ==
    /\ replace_existing = FALSE
    /\ target_mode = "missing-either"
    /\ store = InitialStore
    /\ file = Written([s \in {1} |-> EarlierEntry])
    /\ cache = << >>
    /\ cache_lock = 0
    /\ progress = [done |-> 0, total |-> 0]
    /\ run_pc = "main"
    /\ all_recipes = << >>
    /\ batches = <<>>
    /\ task = <<>>
    /\ collected = {}
    /\ logged = {}
    /\ loaded = {}
    /\ flushed = {}
    /\ reconciled = {}
    /\ run_no = 1
    /\ rejected = {}
    /\ query_retries = QueryRetries(QueryRetriesDefault)
    /\ rq = Idle
    /\ call \in [pc : {"main"}, mealie_api_key : Secrets, provider : Providers,
                 openai_api_key : Secrets, requests : {0}, error : {"none"}]

\* main(), lines 201-203: secret("MEALIE_API_KEY") and the check of it
CheckMealieKey ==
    /\ call.pc = "main"
    /\ call' = IF call.mealie_api_key = ""
               THEN [call EXCEPT !.pc = "raised", !.error = "RuntimeError"]
               ELSE [call EXCEPT !.pc = "resolve_provider"]
    /\ UNCHANGED <<engineVars, query_retries, rq>>

\* resolve_provider, lines 46-54
ResolveProvider ==
    /\ call.pc = "resolve_provider"
    /\ call' = IF call.provider \notin {"ollama", "chatgpt"}
               THEN [call EXCEPT !.pc = "raised", !.error = "ValueError"]
               ELSE [call EXCEPT !.pc = "build_provider_query"]
    /\ UNCHANGED <<engineVars, query_retries, rq>>

\* build_provider_query, lines 167-169: secret("OPENAI_API_KEY", required=True)
BuildProviderQuery ==
    /\ call.pc = "build_provider_query"
    /\ call' = IF call.provider = "chatgpt" /\ call.openai_api_key = ""
               THEN [call EXCEPT !.pc = "raised", !.error = "RuntimeError"]
               ELSE [call EXCEPT !.pc = "construct"]
    /\ UNCHANGED <<engineVars, query_retries, rq>>

\* main(), lines 208-220: MealieCategorizer(...), whose __init__ loads the cache
Construct ==
    /\ call.pc = "construct"
    /\ cache' = load_cache(file)
    /\ loaded' = DOMAIN load_cache(file)
    /\ call' = [call EXCEPT !.pc = "get"]
    /\ UNCHANGED <<replace_existing, target_mode, store, file, cache_lock, progress, run_pc,
                   all_recipes, batches, task, collected, logged, flushed, reconciled,
                   run_no, rejected, query_retries, rq>>

\* get_all_recipes, get_all_categories, get_all_tags (lines 113-128): the GET
\* is answered, or requests.get or raise_for_status raises; nothing in run()
\* or main() catches it
GetAll ==
    /\ call.pc = "get"
    /\ \E answered \in BOOLEAN :
         /\ call' = IF ~answered
                    THEN [call EXCEPT !.requests = @ + 1, !.pc = "raised",
                                      !.error = "RequestException"]
                    ELSE [call EXCEPT !.requests = @ + 1,
                                      !.pc = IF call.requests + 1 = InitialGets
                                             THEN "fetched" ELSE "get"]
         /\ run_pc' = IF answered /\ call.requests + 1 = InitialGets
                      THEN "constructed" ELSE run_pc
    /\ UNCHANGED <<replace_existing, target_mode, store, file, cache, cache_lock, progress,
                   all_recipes, batches, task, collected, logged, loaded, flushed, reconciled,
                   run_no, rejected, query_retries, rq>>

NextMain ==
    \/ CheckMealieKey
    \/ ResolveProvider
    \/ BuildProviderQuery
    \/ Construct
    \/ GetAll
    \/ Next

SpecMain == InitMain /\ [][NextMain]_vars


CredentialsMissing ==
    \/ call.mealie_api_key = ""
    \/ call.provider = "chatgpt" /\ call.openai_api_key = ""

\* C21 as stated: the run is ended by an exception only when a required
\* credential is missing, and then before any HTTP request; otherwise run()
\* completes normally.
C21_OnlyMissingCredentialsAreFatal ==
    /\ run_pc # "raised"
    /\ call.pc = "raised" => (CredentialsMissing /\ call.requests = 0)

\* C21 amended: a missing credential ends main() before any HTTP request and
\* before the engine is constructed; an invalid provider name does the same;
\* a failure of one of the three GETs that run() starts with ends the run
\* before any batch is submitted, with nothing written; and once the GETs are
\* answered run() raises nothing and stops only by returning, whatever the
\* provider, the store and the batches do.
C21_FatalOnlyBeforeTheBatches ==
    /\ run_pc # "raised"
    /\ call.mealie_api_key = "" => call.pc \in {"main", "raised"}
    /\ (CredentialsMissing \/ call.provider \notin {"ollama", "chatgpt"}) =>
          /\ call.requests = 0
          /\ call.pc \in {"main", "resolve_provider", "build_provider_query", "raised"}
          /\ cache = << >>
    /\ call.pc = "raised" =>
          /\ run_pc = "main"
          /\ task = <<>> /\ store = InitialStore /\ flushed = {} /\ rejected = {}
          /\ progress.done = 0
          /\ call.error = "RuntimeError" <=> CredentialsMissing
          /\ call.error = "ValueError" =>
                call.provider \notin {"ollama", "chatgpt"} /\ call.requests = 0
          /\ call.error = "RequestException" => call.requests \in 1..InitialGets
    /\ run_pc # "main" => call.pc = "fetched" /\ call.requests = InitialGets
    /\ ~(ENABLED NextMain) => (call.pc = "raised" \/ run_pc = "returned")
\* run() has returned although one batch ended by an exception; the other
\* batch was counted as cached.
C21_Witness ==
    /\ call.pc = "fetched"
    /\ run_pc = "returned"
    /\ \E b \in Tasks : task[b].pc = "crashed" /\ b \in logged
    /\ \E b \in Tasks : task[b].pc = "done"


(***************************************************************************)
(* taxonomy_manager.py: delete_all, import_items and cleanup_tags of       *)
(* MealieTaxonomyManager, one call taken alone.  call.server is what the   *)
(* server holds under an endpoint, call.sent the DELETE and POST requests  *)
(* sent, call.planned the [plan] lines printed.                            *)
(***************************************************************************)
\* the items of an endpoint on the server; id 0 is a missing id
TaxonomyItems ==
    {[name |-> <<"V", "e", "g", "a", "n">>, id |-> 1],
     [name |-> <<" ", "V", "e", "g", "a", "n", " ">>, id |-> 2],
     [name |-> <<"Z", "e", "s", "t">>, id |-> 3],
     [name |-> <<"Z", "e", "s", "t">>, id |-> 0],
     [name |-> <<"M", "y", " ", "R", "E", "C", "I", "P", "E">>, id |-> 4]}
TaxonomyLists == UNION {[1..n -> TaxonomyItems] : n \in 0..MaxTags}
\* the recipes of the server: none, or one that carries the tag Vegan
TaxonomyRecipes == {<<>>, <<[tags |-> <<[name |-> <<"V", "e", "g", "a", "n">>]>>]>>}
\* the names a taxonomy file asks to import
ImportLists ==
    {<<<<"v", "e", "g", "a", "n">>, <<"S", "o", "u", "p">>>>,
     <<<<"S", "o", "u", "p">>, <<" ", "s", "o", "u", "p">>>>,
     <<<<"Z", "e", "s", "t">>, <<"Z", "E", "S", "T">>>>}

RECURSIVE existing_lookup(_)
\* lines 43-50: the items by str(name).strip().lower(), a later item of the
\* same key taking the place of an earlier one
existing_lookup(items) ==
    IF items = <<>> THEN <<>>
    ELSE LET item == items[Len(items)]
             rest == existing_lookup(SubSeq(items, 1, Len(items) - 1))
         IN IF item.name = <<>> THEN rest
            ELSE dict_put(rest, lower(strip(item.name)), item)

HasKey(existing, key) == \E k \in 1..Len(existing) : existing[k].key = key

\* lines 182-191: re.search of the patterns, each between word boundaries
noisy_tag(name) ==
    \E phrase \in NoisyPhrases :
        \E i \in 1..Len(name) :
            /\ StartsWith(lower(name), i, phrase)
            /\ i = 1 \/ name[i - 1] \notin WordChars
            /\ i + Len(phrase) > Len(name) \/ name[i + Len(phrase)] \notin WordChars

\* lines 131-138: usage[name], the recipes' tags of exactly that name
tag_usage(recipes, name) ==
    LET places == UNION {{<<r, t>> : t \in 1..Len(recipes[r].tags)} : r \in 1..Len(recipes)}
    IN Cardinality({p \in places : recipes[p[1]].tags[p[2]].name = name})

\* line 130: tag_by_name[name], the last tag of that name
tag_by_name(tags, name) ==
    tags[CHOOSE k \in 1..Len(tags) :
            /\ tags[k].name = name
            /\ \A j \in (k + 1)..Len(tags) : tags[j].name # name]

\* lines 141-152: whether the tag of that name is a candidate
is_candidate(c, name) ==
    LET count == tag_usage(c.recipes, name)
    IN /\ ~(c.only_unused /\ count # 0)
       /\ \/ count < c.min_usage
          \/ Len(name) >= c.max_length
          \/ c.delete_noisy /\ noisy_tag(name)
       /\ tag_by_name(c.server, name).id # 0

RECURSIVE by_usage(_, _, _)
\* line 141: sorted(usage.items(), key=lambda item: (item[1], item[0]))
by_usage(c, names, count) ==
    IF names = {} THEN <<>>
    ELSE LET now == {name \in names : tag_usage(c.recipes, name) = count}
         IN [k \in 1..Cardinality(now) |-> tag_by_name(c.server, sorted(now)[k])]
                \o by_usage(c, names \ now, count + 1)

\* lines 140-152: the candidates, ordered by usage and then by name
candidates(c) ==
    LET names == {c.server[k].name : k \in 1..Len(c.server)} \ {<<>>}
    IN by_usage(c, {name \in names : is_candidate(c, name)}, 0)

\* mutant: apply alone decides
effective_apply_without_dry_run(c) == c.apply

\* line 154: effective_apply = apply and not self.dry_run
effective_apply(c) == c.apply /\ ~c.dry_run

TaxonomyOps == {"delete_all", "import_items", "cleanup_tags"}

InitTaxonomy ==
    /\ InitAlone
    /\ ~replace_existing
    /\ call \in [pc : TaxonomyOps, op : TaxonomyOps, dry_run : BOOLEAN, apply : BOOLEAN,
                 replace : BOOLEAN, delete_noisy : BOOLEAN, only_unused : BOOLEAN,
                 max_length : {6, 24}, min_usage : {0, 1},
                 server : TaxonomyLists, recipes : TaxonomyRecipes, items : ImportLists,
                 queue : {<<>>}, existing : {<<>>}, sent : {<<>>}, planned : {<<>>},
                 created : {0}, skipped : {0}, failed : {0}, added : {<<>>}]
    /\ call.pc = call.op
    /\ call.op # "cleanup_tags" =>
          /\ ~call.apply /\ ~call.delete_noisy /\ ~call.only_unused
          /\ call.max_length = 24 /\ call.min_usage = 1 /\ call.recipes = <<>>
    /\ call.op # "import_items" => ~call.replace /\ call.items = <<<<"v", "e", "g", "a", "n">>, <<"S", "o", "u", "p">>>>

\* where delete_all returns to
AfterDelete == IF call.op = "import_items" THEN "import_lookup" ELSE "returned"

\* delete_all, lines 52-60
DeleteAll ==
    /\ call.pc = "delete_all"
    /\ LET existing == existing_lookup(call.server) IN
         call' = [call EXCEPT !.queue = [k \in 1..Len(existing) |-> existing[k].val],
                              !.pc = IF existing = <<>> THEN AfterDelete ELSE "delete_loop"]
    /\ UNCHANGED <<engineVars, query_retries, rq>>

\* delete_all, lines 61-80: one item of the loop, or its end
DeleteItem ==
    /\ call.pc = "delete_loop"
    /\ IF call.queue = <<>> THEN call' = [call EXCEPT !.pc = AfterDelete]
       ELSE LET item == Head(call.queue) IN
            IF item.id = 0 THEN call' = [call EXCEPT !.queue = Tail(@)]
            ELSE IF call.dry_run
            THEN call' = [call EXCEPT !.queue = Tail(@),
                                      !.planned = Append(@, [verb |-> "Delete",
                                                             name |-> item.name])]
            ELSE \E status \in {200, 500} :
                   call' = [call EXCEPT
                              !.queue = Tail(@),
                              !.sent = Append(@, [method |-> "DELETE", name |-> item.name]),
                              !.server = IF status = 200
                                         THEN SelectSeq(@, LAMBDA t : t.id # item.id)
                                         ELSE @]
    /\ UNCHANGED <<engineVars, query_retries, rq>>

\* import_items, lines 82-84
ImportItems ==
    /\ call.pc = "import_items"
    /\ call' = [call EXCEPT !.pc = IF call.replace THEN "delete_all" ELSE "import_lookup"]
    /\ UNCHANGED <<engineVars, query_retries, rq>>

\* mutant: the lookup is fetched also for replace in dry-run mode
ImportLookupFromServer ==
    /\ call.pc = "import_lookup"
    /\ call' = [call EXCEPT !.existing = existing_lookup(call.server),
                            !.queue = call.items,
                            !.pc = "import_loop"]
    /\ UNCHANGED <<engineVars, query_retries, rq>>

\* import_items, lines 85-94; call.added holds the names created or planned
ImportLookup ==
    /\ call.pc = "import_lookup"
    /\ call' = [call EXCEPT !.existing = IF call.replace /\ call.dry_run THEN <<>>
                                         ELSE existing_lookup(call.server),
                            !.queue = call.items,
                            !.pc = "import_loop"]
    /\ UNCHANGED <<engineVars, query_retries, rq>>

\* import_items, lines 96-125: one payload of the loop, or its end
ImportItem ==
    /\ call.pc = "import_loop"
    /\ IF call.queue = <<>> THEN call' = [call EXCEPT !.pc = "returned"]
       ELSE LET name == Head(call.queue)
                key == lower(strip(name))
            IN
            IF HasKey(call.existing, key)
            THEN call' = [call EXCEPT !.queue = Tail(@), !.skipped = @ + 1]
            ELSE IF call.dry_run
            THEN call' = [call EXCEPT !.queue = Tail(@), !.created = @ + 1,
                                      !.existing = dict_put(@, key, [name |-> name, id |-> 0]),
                                      !.planned = Append(@, [verb |-> "Add", name |-> name]),
                                      !.added = Append(@, name)]
            ELSE \E status \in {201, 409, 500} :
                   call' = [call EXCEPT
                              !.queue = Tail(@),
                              !.sent = Append(@, [method |-> "POST", name |-> name]),
                              !.created = IF status = 201 THEN @ + 1 ELSE @,
                              !.skipped = IF status = 409 THEN @ + 1 ELSE @,
                              !.failed = IF status = 500 THEN @ + 1 ELSE @,
                              !.existing = IF status = 201
                                           THEN dict_put(@, key, [name |-> name, id |-> 0])
                                           ELSE @,
                              !.added = IF status = 201 THEN Append(@, name) ELSE @]
    /\ UNCHANGED <<engineVars, query_retries, rq>>

\* cleanup_tags, lines 127-163
CleanupTags ==
    /\ call.pc = "cleanup_tags"
    /\ call' = [call EXCEPT !.queue = candidates(call),
                            !.pc = IF candidates(call) = <<>> THEN "returned"
                                   ELSE "cleanup_loop"]
    /\ UNCHANGED <<engineVars, query_retries, rq>>

\* cleanup_tags, lines 165-181: one candidate of the loop, or its end
CleanupItem ==
    /\ call.pc = "cleanup_loop"
    /\ IF call.queue = <<>> THEN call' = [call EXCEPT !.pc = "returned"]
       ELSE LET item == Head(call.queue) IN
            IF effective_apply(call)
            THEN \E status \in {200, 500} :
                   call' = [call EXCEPT
                              !.queue = Tail(@),
                              !.sent = Append(@, [method |-> "DELETE", name |-> item.name]),
                              !.server = IF status = 200
                                         THEN SelectSeq(@, LAMBDA t : t.id # item.id)
                                         ELSE @]
            ELSE call' = [call EXCEPT !.queue = Tail(@),
                                      !.planned = Append(@, [verb |-> "Delete",
                                                             name |-> item.name])]
    /\ UNCHANGED <<engineVars, query_retries, rq>>

NextTaxonomy ==
    \/ DeleteAll
    \/ DeleteItem
    \/ ImportItems
    \/ ImportLookup
    \/ ImportItem
    \/ CleanupTags
    \/ CleanupItem

SpecTaxonomy == InitTaxonomy /\ [][NextTaxonomy]_vars


\* the keys of a list of names, each once
KeysOf(names) == {lower(strip(names[k])) : k \in 1..Len(names)}
Planned23(verb) == {call.planned[k].name : k \in {j \in 1..Len(call.planned) :
                                                     call.planned[j].verb = verb}}

\* C23: in dry-run mode delete_all, import_items (with or without replace)
\* and cleanup_tags send no DELETE and no POST and leave the server as it
\* is: they print what they would do (import_items with replace plans the
\* addition of every name asked for, once per key); cleanup_tags sends no
\* DELETE either when apply is not set.
C23_DryRunSendsNoWrite ==
    /\ call.dry_run => call.sent = <<>>
    /\ (call.op = "cleanup_tags" /\ ~call.apply) => call.sent = <<>>
    /\ call.sent = <<>> => call.failed = 0
    /\ (call.pc = "returned" /\ call.dry_run /\ call.op = "delete_all") =>
          /\ Planned23("Add") = {}
          /\ Planned23("Delete") =
                {call.server[k].name : k \in {j \in 1..Len(call.server) :
                    /\ call.server[j].id # 0
                    /\ \A i \in (j + 1)..Len(call.server) :
                          lower(strip(call.server[i].name)) # lower(strip(call.server[j].name))}}
    /\ (call.pc = "returned" /\ call.dry_run /\ call.op = "import_items" /\ call.replace) =>
          /\ call.created = Cardinality(KeysOf(call.items))
          /\ call.created + call.skipped = Len(call.items)
          /\ KeysOf(call.items)
                \subseteq KeysOf([k \in 1..Len(call.planned) |-> call.planned[k].name])
    /\ (call.pc = "returned" /\ call.op = "cleanup_tags" /\ ~effective_apply(call)) =>
          Len(call.planned) = Len(candidates(call))
\* import_items with replace has returned in dry-run mode: deletions and
\* additions are planned, one name was skipped as planned already, and no
\* request was sent.
C23_Witness ==
    /\ call.pc = "returned"
    /\ call.op = "import_items"
    /\ call.dry_run /\ call.replace
    /\ Planned23("Delete") # {}
    /\ Planned23("Add") # {}
    /\ call.skipped = 1
    /\ call.sent = <<>>


(***************************************************************************)
(* cookbook_manager.py: sync_cookbooks of MealieCookbookManager, one call  *)
(* taken alone.  A cookbook is its name, id (0: missing) and description;  *)
(* the fields public, position and queryFilterString are equal in all the  *)
(* cookbooks of the model.  call.sent holds the POST, PUT and DELETE       *)
(* requests sent.                                                          *)
(***************************************************************************)
MaxCookbooks == 2      \* the most cookbooks the server holds, or a file asks for

\* what GET /households/cookbooks returns
ExistingCookbooks ==
    {[name |-> <<"D", "i", "n">>, id |-> 1, description |-> "old"],
     [name |-> <<"D", "i", "n">>, id |-> 1, description |-> "new"],
     [name |-> <<"d", "i", "n", " ">>, id |-> 0, description |-> "old"],
     [name |-> <<"P", "r", "e", "p">>, id |-> 2, description |-> "new"],
     [name |-> <<" ">>, id |-> 3, description |-> "new"]}
\* the cookbooks asked for
DesiredCookbooks ==
    {[name |-> <<"D", "i", "n">>, description |-> "new"],
     [name |-> <<" ", "d", "i", "n">>, description |-> "new"],
     [name |-> <<"S", "o", "u", "p">>, description |-> "new"]}
CookbookLists(S) == UNION {[1..n -> S] : n \in 0..MaxCookbooks}

RECURSIVE existing_by_name(_)
\* lines 258-260: the cookbooks by str(name).strip().lower(), without those
\* of a blank name
existing_by_name(existing) ==
    IF existing = <<>> THEN <<>>
    ELSE LET cb == existing[Len(existing)]
             rest == existing_by_name(SubSeq(existing, 1, Len(existing) - 1))
         IN IF strip(cb.name) = <<>> THEN rest
            ELSE dict_put(rest, lower(strip(cb.name)), cb)

\* lines 235-242
has_changes(existing, desired) ==
    \/ existing.name # desired.name
    \/ existing.description # desired.description

\* line 302: desired_names
desired_names(desired) == {lower(strip(desired[k].name)) : k \in 1..Len(desired)}

\* mutant: every existing cookbook is up for deletion
not_desired_or_desired(lookup, desired) ==
    [k \in 1..Len(lookup) |-> lookup[k].val]

\* lines 303-305: the existing cookbooks whose key is no desired name
not_desired(lookup, desired) ==
    LET kept == SelectSeq(lookup, LAMBDA pair : pair.key \notin desired_names(desired))
    IN [k \in 1..Len(kept) |-> kept[k].val]

InitCookbooks ==
    /\ InitAlone
    /\ ~replace_existing
    /\ call \in [pc : {"sync_cookbooks"}, dry_run : BOOLEAN, replace : BOOLEAN,
                 desired : CookbookLists(DesiredCookbooks),
                 existing : CookbookLists(ExistingCookbooks),
                 by_name : {<<>>}, queue : {<<>>}, sent : {<<>>},
                 created : {0}, updated : {0}, deleted : {0}, skipped : {0}, failed : {0}]

\* lines 245-266: the desired items are prepared and the cookbooks fetched
SyncCookbooks ==
    /\ call.pc = "sync_cookbooks"
    /\ call' = [call EXCEPT !.by_name = existing_by_name(call.existing),
                            !.queue = call.desired,
                            !.pc = "desired_loop"]
    /\ UNCHANGED <<engineVars, query_retries, rq>>

\* create_cookbook, update_cookbook, delete_cookbook (lines 71-112): in
\* dry-run mode the plan is printed and True returned; else the request is
\* sent and its status decides
Requested(method, name, counter, ok) ==
    IF call.dry_run
    THEN call' = [call EXCEPT !.queue = Tail(@), ![counter] = @ + 1]
    ELSE \E status \in {ok, 500} :
           call' = [call EXCEPT !.queue = Tail(@),
                                !.sent = Append(@, [method |-> method, name |-> name]),
                                ![counter] = IF status = ok THEN @ + 1 ELSE @,
                                !.failed = IF status = ok THEN @ ELSE @ + 1]

\* lines 268-299: one desired item of the loop, or its end
SyncItem ==
    /\ call.pc = "desired_loop"
    /\ IF call.queue = <<>>
       THEN call' = [call EXCEPT !.pc = IF call.replace THEN "delete_loop" ELSE "returned",
                                 !.queue = IF call.replace
                                           THEN not_desired(call.by_name, call.desired)
                                           ELSE <<>>]
       ELSE LET item == Head(call.queue)
                key == lower(strip(item.name))
                found == {k \in 1..Len(call.by_name) : call.by_name[k].key = key}
            IN
            IF found = {} THEN Requested("POST", item.name, "created", 201)
            ELSE LET match == call.by_name[CHOOSE k \in found : TRUE].val IN
                 IF ~has_changes(match, item)
                 THEN call' = [call EXCEPT !.queue = Tail(@), !.skipped = @ + 1]
                 ELSE IF match.id = 0
                 THEN call' = [call EXCEPT !.queue = Tail(@), !.failed = @ + 1]
                 ELSE Requested("PUT", item.name, "updated", 200)
    /\ UNCHANGED <<engineVars, query_retries, rq>>

\* lines 301-317: one existing cookbook that is not desired, or the end
DeleteCookbook ==
    /\ call.pc = "delete_loop"
    /\ IF call.queue = <<>> THEN call' = [call EXCEPT !.pc = "returned"]
       ELSE LET cb == Head(call.queue) IN
            IF cb.id = 0
            THEN call' = [call EXCEPT !.queue = Tail(@), !.failed = @ + 1]
            ELSE Requested("DELETE", cb.name, "deleted", 204)
    /\ UNCHANGED <<engineVars, query_retries, rq>>

NextCookbooks ==
    \/ SyncCookbooks
    \/ SyncItem
    \/ DeleteCookbook

SpecCookbooks == InitCookbooks /\ [][NextCookbooks]_vars

Classified == call.created + call.updated + call.skipped + call.failed
Sent24(method) == {call.sent[k].name : k \in {j \in 1..Len(call.sent) :
                                                 call.sent[j].method = method}}

\* C24 as stated: when sync_cookbooks returns, created, updated, skipped and
\* failed sum to the number of desired cookbooks; a DELETE is sent only under
\* replace and only for an existing cookbook whose name is no desired name;
\* in dry-run mode no request is sent.
C24_FourCountsSumToDesired ==
    /\ call.pc = "returned" => Classified = Len(call.desired)
    /\ Sent24("DELETE") # {} => call.replace
    /\ \A name \in Sent24("DELETE") : lower(strip(name)) \notin desired_names(call.desired)
    /\ call.dry_run => call.sent = <<>>

\* C24 amended: every desired cookbook is counted once, as created, updated,
\* skipped or failed, so that the four counts sum to the number of desired
\* cookbooks when the loop over them ends, and still do when sync_cookbooks
\* returns without replace; under replace, failed counts in addition every
\* existing cookbook without a desired name that has no id or whose DELETE is
\* refused, and deleted the others.  A DELETE is sent only under replace and
\* only for an existing cookbook whose name is no desired name; in dry-run
\* mode no request is sent.
C24_DesiredCountedOnceDeletesApart ==
    /\ call.pc = "desired_loop" =>
          Classified = Len(call.desired) - Len(call.queue) /\ call.deleted = 0
    /\ (call.pc = "returned" /\ ~call.replace) =>
          Classified = Len(call.desired) /\ call.deleted = 0
    /\ (call.pc = "returned" /\ call.replace) =>
          /\ Classified + call.deleted =
                Len(call.desired)
                    + Len(not_desired(existing_by_name(call.existing), call.desired))
          /\ call.created + call.updated + call.skipped <= Len(call.desired)
    /\ Sent24("DELETE") # {} => call.replace
    /\ \A name \in Sent24("DELETE") :
          /\ lower(strip(name)) \notin desired_names(call.desired)
          /\ \E k \in 1..Len(call.existing) :
                call.existing[k].name = name /\ call.existing[k].id # 0
    /\ call.dry_run => call.sent = <<>>
\* sync_cookbooks has returned under replace: a cookbook was created, one
\* deleted, and one existing cookbook without id was counted as failed, so
\* the four counts exceed the number of desired cookbooks.
C24_Witness ==
    /\ call.pc = "returned"
    /\ call.replace /\ ~call.dry_run
    /\ call.created = 1
    /\ call.deleted = 1
    /\ Classified > Len(call.desired)
    /\ Sent24("DELETE") # {}

(***************************************************************************)
(* The PATCH body of update_recipe_metadata (lines 324-335).               *)
(***************************************************************************)
\* terms is previous followed by at least one more term
Extends(previous, terms) ==
    /\ Len(terms) > Len(previous)
    /\ SubSeq(terms, 1, Len(previous)) = previous

\* the suggestion names a known term whose slug is not among terms
NamesNewTerm(names, known, terms) ==
    \E i \in 1..Len(names) :
        /\ IsText(names[i])
        /\ by_name(known, Key(names[i])) # NoTerm
        /\ by_name(known, Key(names[i])).slug \notin SlugsOf(terms)

\* C31 as stated: in every PATCH recipeCategory is present if and only if a
\* category was added and tags if and only if a tag was added, and a field
\* that is present carries the recipe's previous entries followed by the
\* added ones.
C31_PatchCarriesPreviousThenAdded ==
    PatchSent =>
        /\ "recipeCategory" \in call.plan.payload.fields <=>
               NamesNewTerm(call.category_names, KnownCategories, ExistingCategories)
        /\ "tags" \in call.plan.payload.fields <=>
               NamesNewTerm(call.tag_names, KnownTags, ExistingTags)
        /\ "recipeCategory" \in call.plan.payload.fields =>
               Extends(call.recipe.recipeCategory, call.plan.payload.recipeCategory)
        /\ "tags" \in call.plan.payload.fields =>
               Extends(call.recipe.tags, call.plan.payload.tags)

\* C31 amended: in every PATCH recipeCategory is present if and only if a
\* category was added and tags if and only if a tag was added, and a field
\* that is present carries the whole new list: the entries the call started
\* from (the recipe's own, or none when replace_existing is set) followed by
\* the added ones.
C31_PatchCarriesStartThenAdded ==
    PatchSent =>
        /\ "recipeCategory" \in call.plan.payload.fields <=>
               NamesNewTerm(call.category_names, KnownCategories, ExistingCategories)
        /\ "tags" \in call.plan.payload.fields <=>
               NamesNewTerm(call.tag_names, KnownTags, ExistingTags)
        /\ "recipeCategory" \in call.plan.payload.fields =>
               Extends(ExistingCategories, call.plan.payload.recipeCategory)
        /\ "tags" \in call.plan.payload.fields =>
               Extends(ExistingTags, call.plan.payload.tags)
        /\ call.plan.payload.fields # {}

\* A recipe with Dinner and Quick is suggested Lunch and Quick: the PATCH
\* holds recipeCategory alone, Dinner followed by Lunch.
C31_Witness ==
    /\ call.pc = "updated"
    /\ ~replace_existing
    /\ call.recipe = [recipeCategory |-> <<KnownCategories[1]>>, tags |-> KnownTags]
    /\ call.category_names = <<"Lunch">>
    /\ call.tag_names = <<"Quick">>
    /\ call.plan.payload.fields = {"recipeCategory"}
    /\ call.plan.payload.recipeCategory = <<KnownCategories[1], KnownCategories[2]>>

(***************************************************************************)
(* update_recipe_metadata with replace_existing set (lines 286-287).       *)
(***************************************************************************)
\* the known terms that the names of a suggestion match
Matched(names, known) ==
    {by_name(known, Key(names[i])) :
        i \in {j \in 1..Len(names) :
                   IsText(names[j]) /\ by_name(known, Key(names[j])) # NoTerm}}

\* C32: with replace_existing set, each field of a PATCH holds exactly the
\* known terms the suggestion matches, each once, whatever the recipe held
\* before; a call whose suggestion matches no known term sends no PATCH and
\* leaves the recipe's categories and tags as they were.
C32_ReplaceSendsTheMatchedTermsOnly ==
    replace_existing =>
        /\ PatchSent =>
               /\ "recipeCategory" \in call.plan.payload.fields =>
                      /\ SeqToSet(call.plan.payload.recipeCategory)
                             = Matched(call.category_names, KnownCategories)
                      /\ NoDuplicateSlug(call.plan.payload.recipeCategory)
               /\ "tags" \in call.plan.payload.fields =>
                      /\ SeqToSet(call.plan.payload.tags)
                             = Matched(call.tag_names, KnownTags)
                      /\ NoDuplicateSlug(call.plan.payload.tags)
        /\ (/\ call.pc \notin {"called", "planned"}
            /\ Matched(call.category_names, KnownCategories) = {}
            /\ Matched(call.tag_names, KnownTags) = {}) =>
               /\ ~PatchSent
               /\ call.stored = call.recipe

\* A recipe holding Dinner and Quick is suggested Lunch alone: the PATCH
\* carries recipeCategory with Lunch and not Dinner, and the recipe is left
\* with Lunch and its tag.
C32_Witness ==
    /\ replace_existing
    /\ call.pc = "updated"
    /\ call.recipe = [recipeCategory |-> <<KnownCategories[1]>>, tags |-> KnownTags]
    /\ call.category_names = <<"Lunch">>
    /\ call.tag_names = <<"Spicy">>
    /\ call.plan.payload.fields = {"recipeCategory"}
    /\ call.plan.payload.recipeCategory = <<KnownCategories[2]>>
    /\ call.stored = [recipeCategory |-> <<KnownCategories[2]>>, tags |-> KnownTags]

(***************************************************************************)
(* The sleeps of safe_query_with_retry (lines 197-199).                    *)
(***************************************************************************)
\* the part of the k-th sleep that is not jitter
BaseDelay(k) == rq.slept[k].length - rq.slept[k].jitter

\* the call made all its attempts and none gave a value to return
FailedAllAttempts ==
    /\ rq.pc = "returned"
    /\ rq.ret = None
    /\ rq.attempts >= 1
    /\ rq.calls = rq.attempts

\* C33: the sleep after attempt k lasts base_seconds * 2^k plus a jitter of
\* less than 0.75 s; the call sleeps only while another attempt remains; and
\* a call whose N attempts all fail has slept N-1 times, each base delay
\* longer than the one before.
C33_BackoffDoublesUntilTheLastAttempt ==
    /\ \A k \in 1..Len(rq.slept) :
           /\ rq.slept[k].jitter \in 0..(JitterTicks - 1)
           /\ BaseDelay(k) = rq.query_retry_base_seconds * (2 ^ (k - 1))
    /\ \A k \in 1..Len(rq.sleeps) : rq.sleeps[k] < rq.attempts - 1
    /\ FailedAllAttempts =>
           /\ Len(rq.slept) = rq.attempts - 1
           /\ \A k \in 2..Len(rq.slept) : BaseDelay(k - 1) < BaseDelay(k)

(***************************************************************************)
(* batch_recipes, one call of it taken alone (lines 355-358, 450).         *)
(***************************************************************************)
MaxTargets == 4        \* the longest list handed to batch_recipes
MaxBatchSize == 3      \* the largest batch size configured

\* the lists of recipes handed over, each recipe named by its slug
TargetLists == UNION {[1..n -> RecipeSlugs] : n \in 0..MaxTargets}

\* recipe_categorizer.py line 12: BATCH_SIZE is any int the configuration
\* holds
BatchSizes == (-1)..MaxBatchSize

InitBatch ==
    /\ InitAlone
    /\ ~replace_existing
    /\ call \in [pc : {"called"}, recipes : TargetLists, size : BatchSizes,
                 batches : {<<>>}]

\* line 450: list(self.batch_recipes(targets, self.batch_size))
ListBatches ==
    /\ call.pc = "called"
    /\ call.size # 0
    /\ call' = [call EXCEPT !.pc = "returned",
                            !.batches = batch_recipes(call.recipes, call.size)]
    /\ UNCHANGED <<engineVars, query_retries, rq>>

\* line 357: range(0, len(recipes), 0) raises ValueError
BatchesRaise ==
    /\ call.pc = "called"
    /\ call.size = 0
    /\ call' = [call EXCEPT !.pc = "raised"]
    /\ UNCHANGED <<engineVars, query_retries, rq>>

NextBatch ==
    \/ ListBatches
    \/ BatchesRaise

SpecBatch == InitBatch /\ [][NextBatch]_vars

RECURSIVE Concatenated(_)
Concatenated(lists) ==
    IF lists = <<>> THEN <<>> ELSE Head(lists) \o Concatenated(Tail(lists))

\* C34: batch_recipes returns batches that, one after the other, are the
\* list handed over; every batch but the last holds batch_size recipes and
\* the last between 1 and batch_size, so every place of the list is in
\* exactly one batch.
C34_BatchesPartitionTheTargets ==
    /\ call.pc # "raised"
    /\ call.pc = "returned" =>
           /\ Concatenated(call.batches) = call.recipes
           /\ \A b \in 1..Len(call.batches) :
                  /\ b < Len(call.batches) => Len(call.batches[b]) = call.size
                  /\ Len(call.batches[b]) \in 1..call.size

(***************************************************************************)
(* The progress counter and the ETA reporter (lines 86-111) with the       *)
(* threads of run() that use them (lines 443-469).                         *)
(***************************************************************************)
MaxBatches == 2        \* the batches of the run, each on a thread of its own
MaxBatchLen == 2       \* the most recipes of one of these batches

\* what the threads of this section leave alone
offProgress == <<replace_existing, target_mode, store, file, cache, cache_lock,
                 run_pc, all_recipes, batches, task, collected, logged, loaded,
                 flushed, reconciled, run_no, rejected, query_retries, rq>>

Batch == 1..MaxBatches

\* A batch has n recipes of which c are in the cache (lines 364-370); count
\* is the argument of the advance_progress call under way, read the value
\* of progress["done"] it loaded, next where process_batch goes on after
\* it, advanced what its finished calls have added.
QueuedBatch(n, c) ==
    [pc |-> "queued", n |-> n, c |-> c, count |-> 0, read |-> 0,
     next |-> "rest", advanced |-> 0]

QueuedBatches ==
    UNION {{QueuedBatch(n, c) : c \in 0..n} : n \in 1..MaxBatchLen}

RECURSIVE Sum(_, _)
\* f[1] + ... + f[n]
Sum(f, n) == IF n = 0 THEN 0 ELSE f[n] + Sum(f, n - 1)

\* progress_lock is the set of the threads inside `with self.progress_lock`;
\* reporter the thread of eta_reporter with the snapshot it took
InitProgress ==
    /\ InitAlone
    /\ ~replace_existing
    /\ call \in [pc : {"set_total"}, progress_lock : {{}},
                 batch : [Batch -> QueuedBatches],
                 reporter : {[pc |-> "unstarted", done |-> 0, total |-> 0]}]

\* mutant: the lock lets every thread in
lock_free_always(progress_lock) == TRUE

\* threading.Lock: a thread enters when no thread is inside
lock_free(progress_lock) == progress_lock = {}

\* lines 86-88 and 443: set_progress_total(len(targets))
SetProgressTotal ==
    /\ call.pc = "set_total"
    /\ lock_free(call.progress_lock)
    /\ progress' = [done |-> 0,
                    total |-> Sum([b \in Batch |-> call.batch[b].n], MaxBatches)]
    /\ call' = [call EXCEPT !.pc = "start_reporter"]
    /\ UNCHANGED offProgress

\* line 447: the reporter thread is started; lines 450-462: the batches are
\* submitted
StartReporter ==
    /\ call.pc = "start_reporter"
    /\ call' = [call EXCEPT !.pc = "pool", !.reporter.pc = "snapshot"]
    /\ UNCHANGED <<progress, offProgress>>

\* lines 364-367: process_batch counts the cached recipes of its batch
Begin(b) ==
    /\ call.pc = "pool"
    /\ call.batch[b].pc = "queued"
    /\ call' = IF call.batch[b].c > 0
               THEN [call EXCEPT !.batch[b].pc = "acquire",
                                 !.batch[b].count = call.batch[b].c]
               ELSE [call EXCEPT !.batch[b].pc = "rest"]
    /\ UNCHANGED <<progress, offProgress>>

\* line 93: with self.progress_lock
Acquire(b) ==
    /\ call.batch[b].pc = "acquire"
    /\ lock_free(call.progress_lock)
    /\ call' = [call EXCEPT !.progress_lock = @ \cup {b}, !.batch[b].pc = "load"]
    /\ UNCHANGED <<progress, offProgress>>

\* line 94, the load of self.progress["done"]
Load(b) ==
    /\ call.batch[b].pc = "load"
    /\ call' = [call EXCEPT !.batch[b].read = progress.done,
                            !.batch[b].pc = "store"]
    /\ UNCHANGED <<progress, offProgress>>

\* line 94, the store of the sum, and the end of the with block
Store(b) ==
    /\ call.batch[b].pc = "store"
    /\ progress' = advance_progress([progress EXCEPT !.done = call.batch[b].read],
                                    call.batch[b].count)
    /\ call' = [call EXCEPT !.progress_lock = @ \ {b},
                            !.batch[b].advanced = @ + call.batch[b].count,
                            !.batch[b].pc = call.batch[b].next]
    /\ UNCHANGED offProgress

\* lines 368-370: nothing is left of the batch and process_batch returns
ReturnCached(b) ==
    /\ call.batch[b].pc = "rest"
    /\ call.batch[b].n = call.batch[b].c
    /\ call' = [call EXCEPT !.batch[b].pc = "done"]
    /\ UNCHANGED <<progress, offProgress>>

\* lines 375, 380 and 414: advance_progress for the recipes left, after
\* which process_batch returns
AdvanceRest(b) ==
    /\ call.batch[b].pc = "rest"
    /\ call.batch[b].n > call.batch[b].c
    /\ call' = [call EXCEPT !.batch[b].pc = "acquire",
                            !.batch[b].count = call.batch[b].n - call.batch[b].c,
                            !.batch[b].next = "done"]
    /\ UNCHANGED <<progress, offProgress>>

\* lines 372-412: an exception leaves process_batch (a request that fails
\* in the provider callable or in the PATCH, a response entry that is no
\* object); the future holds it
BatchRaises(b) ==
    /\ call.batch[b].pc = "rest"
    /\ call.batch[b].n > call.batch[b].c
    /\ call' = [call EXCEPT !.batch[b].pc = "crashed"]
    /\ UNCHANGED <<progress, offProgress>>

AllFinished == \A b \in Batch : call.batch[b].pc \in {"done", "crashed"}

\* lines 463-469: every future is collected and run() returns
RunReturns ==
    /\ call.pc = "pool"
    /\ AllFinished
    /\ call' = [call EXCEPT !.pc = "returned"]
    /\ UNCHANGED <<progress, offProgress>>

\* lines 96-98 and 102: progress_snapshot
ProgressSnapshot ==
    /\ call.reporter.pc = "snapshot"
    /\ lock_free(call.progress_lock)
    /\ call' = [call EXCEPT !.reporter = [pc |-> "check", done |-> progress.done,
                                          total |-> progress.total]]
    /\ UNCHANGED <<progress, offProgress>>

\* lines 103-104: done >= total ends the loop
ReporterBreak ==
    /\ call.reporter.pc = "check"
    /\ call.reporter.done >= call.reporter.total
    /\ call' = [call EXCEPT !.reporter.pc = "stopped"]
    /\ UNCHANGED <<progress, offProgress>>

\* lines 105-110: the progress line and time.sleep(5)
ReporterSleep ==
    /\ call.reporter.pc = "check"
    /\ call.reporter.done < call.reporter.total
    /\ call' = [call EXCEPT !.reporter.pc = "snapshot"]
    /\ UNCHANGED <<progress, offProgress>>

NextProgress ==
    \/ SetProgressTotal
    \/ StartReporter
    \/ \E b \in Batch : Begin(b)
    \/ \E b \in Batch : Acquire(b)
    \/ \E b \in Batch : Load(b)
    \/ \E b \in Batch : Store(b)
    \/ \E b \in Batch : ReturnCached(b)
    \/ \E b \in Batch : AdvanceRest(b)
    \/ \E b \in Batch : BatchRaises(b)
    \/ RunReturns
    \/ ProgressSnapshot
    \/ ReporterBreak
    \/ ReporterSleep

SpecProgress == InitProgress /\ [][NextProgress]_vars

\* C35: once set_progress_total has run, no step of any thread lowers done,
\* and done is the sum of the counts of all advance_progress calls that
\* have finished: no increment is lost.
C35_DoneNeverFallsNorLosesAnIncrement ==
    /\ [][call.pc # "set_total" => progress'.done >= progress.done]_vars
    /\ [](call.pc # "set_total" =>
              progress.done = Sum([b \in Batch |-> call.batch[b].advanced], MaxBatches))

\* both batches have advanced the counter, one of them twice, the second
\* call of one while the other batch was between its calls
C35_Witness ==
    /\ call.pc = "returned"
    /\ \A b \in Batch : call.batch[b].pc = "done"
    /\ \E b \in Batch : call.batch[b].c > 0 /\ call.batch[b].n > call.batch[b].c
    /\ progress.done = progress.total
    /\ progress.total >= 3

\* Every thread that can take a step takes one: the pool's threads and the
\* reporter thread are scheduled by the interpreter, and a lock that is
\* released is handed to a waiting thread.
FairProgress ==
    /\ WF_vars(SetProgressTotal)
    /\ WF_vars(StartReporter)
    /\ WF_vars(RunReturns)
    /\ WF_vars(ProgressSnapshot)
    /\ WF_vars(ReporterBreak)
    /\ WF_vars(ReporterSleep)
    /\ \A b \in Batch :
           /\ WF_vars(Begin(b))
           /\ SF_vars(Acquire(b))
           /\ WF_vars(Load(b))
           /\ WF_vars(Store(b))
           /\ WF_vars(ReturnCached(b) \/ AdvanceRest(b) \/ BatchRaises(b))

SpecProgressFair == SpecProgress /\ FairProgress

\* C36: the reporter stops only after a snapshot with done >= total, and
\* once every batch has finished, by returning or by raising, the reporter
\* takes such a snapshot and stops.
C36_ReporterStopsOnceBatchesFinished ==
    /\ [](call.reporter.pc = "stopped" => call.reporter.done >= call.reporter.total)
    /\ (AllFinished ~> call.reporter.pc = "stopped")

(***************************************************************************)
(* query_chatgpt and query_ollama, one call of a provider callable         *)
(* (recipe_categorizer.py lines 61-164).                                   *)
(***************************************************************************)
MaxHttpRetries == 3    \* the largest http_retries of a call

\* Time is counted in quarters of a second: the first backoff of
\* query_chatgpt is 1.5 s (lines 82, 97), that of query_ollama 1.25 s (lines
\* 131, 154), and random.uniform(0, 0.5) gives one of HttpJitterTicks
\* quarters.
ChatGPTBackoff == 6
OllamaBackoff == 5
HttpJitterTicks == 2
QuartersPerSecond == 4

\* What requests.post does: it raises a RequestException (no connection, a
\* timeout), or it returns a response with a status, a Retry-After header
\* and a body. A header is absent, a number of seconds in digits, or an
\* HTTP date; retry_after names the seconds of a header in digits.
NoHeader == [kind |-> "absent", seconds |-> 0]
RetryAfterHeaders ==
    {NoHeader, [kind |-> "digits", seconds |-> 2], [kind |-> "date", seconds |-> 0]}

\* The bodies of a 200 response. For query_chatgpt: the expected completion,
\* text that is no JSON, an object without "choices", an object whose
\* choices are [], a completion whose content is null, and a JSON array. For
\* query_ollama: lines with "response" chunks, lines that are no JSON, a
\* chunk without "response", a chunk that is a number, and a chunk whose
\* response is null.
Bodies(provider) ==
    IF provider = "chatgpt"
    THEN {"completion", "not_json", "no_choices", "empty_choices", "null_content",
          "array"}
    ELSE {"chunks", "not_json", "no_response", "number", "null_response"}

Raised(provider) == [kind |-> "raised", status |-> 0, header |-> NoHeader, body |-> ""]

Responses(provider) ==
    {Raised(provider)}
    \cup [kind : {"response"}, status : {429, 503}, header : RetryAfterHeaders,
          body : {""}]
    \cup [kind : {"response"}, status : {404}, header : {NoHeader}, body : {""}]
    \cup [kind : {"response"}, status : {200}, header : {NoHeader},
          body : Bodies(provider)]

\* The installed requests package: since 2.27 response.json() raises
\* requests.exceptions.JSONDecodeError, which is a RequestException and a
\* ValueError; before, it raises a ValueError that is no RequestException.
RequestsBuilds == {"before 2.27", "since 2.27"}

\* lines 81 and 130: response.status_code == 429 or 500 <= status < 600
transient_only_429(status) == status = 429
transient(status) == status = 429 \/ (500 <= status /\ status < 600)

\* Lines 91-93 and 139-150: what the statements after the status test do
\* with a response that is not transient: the text they return, or the
\* exception they raise.
outcome(provider, response, build) ==
    IF response.status # 200 THEN "HTTPError"
    ELSE CASE response.body = "completion" -> "text"
           [] response.body = "chunks" -> "text"
           [] response.body = "not_json" ->
                  IF provider = "ollama" THEN "empty text"
                  ELSE IF build = "since 2.27" THEN "requests.JSONDecodeError"
                  ELSE "ValueError"
           [] response.body = "no_choices" -> "KeyError"
           [] response.body = "empty_choices" -> "IndexError"
           [] response.body = "null_content" -> "AttributeError"
           [] response.body = "array" -> "TypeError"
           [] response.body = "no_response" -> "empty text"
           [] response.body = "number" -> "TypeError"
           [] response.body = "null_response" -> "TypeError"

\* lines 94 and 151: except requests.RequestException
is_request_exception(exc) == exc \in {"HTTPError", "requests.JSONDecodeError"}

\* line 105: except (ValueError, KeyError, TypeError), which query_ollama
\* does not have
is_parse_error(provider, exc) ==
    provider = "chatgpt" /\ exc \in {"ValueError", "KeyError", "TypeError"}

\* lines 82 and 131: wait_for before the jitter for a transient status
wait_for(provider, header, attempt) ==
    IF provider = "chatgpt" /\ header.kind = "digits"
    THEN header.seconds * QuartersPerSecond
    ELSE (IF provider = "chatgpt" THEN ChatGPTBackoff ELSE OllamaBackoff) * (2 ^ attempt)

\* lines 97 and 154: wait_for before the jitter after a RequestException
backoff(provider, attempt) ==
    (IF provider = "chatgpt" THEN ChatGPTBackoff ELSE OllamaBackoff) * (2 ^ attempt)

InitProvider ==
    /\ InitAlone
    /\ ~replace_existing
    /\ call \in [pc : {"loop"}, provider : {"chatgpt", "ollama"},
                 build : RequestsBuilds, http_retries : 1..MaxHttpRetries,
                 attempt : {0}, posts : {0}, slept : {<<>>},
                 response : {[kind |-> "none", status |-> 0, header |-> NoHeader,
                              body |-> ""]},
                 ret : {"none"}]

providerFrame == <<engineVars, query_retries, rq>>

\* lines 77-79 and 121-129: the next attempt of the loop sends the request
Post(response) ==
    /\ call.pc = "loop"
    /\ call.attempt < call.http_retries
    /\ call' = [call EXCEPT !.pc = "answered", !.posts = @ + 1,
                            !.response = response]
    /\ UNCHANGED providerFrame

\* lines 109-110 and 163-164: the loop has ended and None is returned
GiveUp ==
    /\ call.pc = "loop"
    /\ call.attempt >= call.http_retries
    /\ call' = [call EXCEPT !.pc = "returned", !.ret = "None"]
    /\ UNCHANGED providerFrame

\* lines 80-89 and 130-137: a transient status, the sleep and `continue`
Transient ==
    /\ call.pc = "answered"
    /\ call.response.kind = "response"
    /\ transient(call.response.status)
    /\ \E jitter \in 0..(HttpJitterTicks - 1) :
           call' = [call EXCEPT
                        !.pc = "loop", !.attempt = @ + 1,
                        !.slept = Append(@, [after |-> call.attempt,
                                             base |-> wait_for(call.provider,
                                                               call.response.header,
                                                               call.attempt),
                                             jitter |-> jitter])]
    /\ UNCHANGED providerFrame

\* the exception in flight, if any, after the status test
Exception ==
    IF call.response.kind = "raised" THEN "ConnectionError"
    ELSE outcome(call.provider, call.response, call.build)

Answered ==
    /\ call.pc = "answered"
    /\ ~(call.response.kind = "response" /\ transient(call.response.status))

\* lines 94-104 and 151-161: a RequestException, from requests.post, from
\* raise_for_status or from response.json(); a sleep while an attempt
\* remains, `break` otherwise
RequestFailed ==
    /\ Answered
    /\ Exception = "ConnectionError" \/ is_request_exception(Exception)
    /\ IF call.attempt < call.http_retries - 1
       THEN \E jitter \in 0..(HttpJitterTicks - 1) :
                call' = [call EXCEPT
                             !.pc = "loop", !.attempt = @ + 1,
                             !.slept = Append(@, [after |-> call.attempt,
                                                  base |-> backoff(call.provider,
                                                                   call.attempt),
                                                  jitter |-> jitter])]
       ELSE call' = [call EXCEPT !.pc = "loop", !.attempt = call.http_retries]
    /\ UNCHANGED providerFrame

\* lines 105-107: query_chatgpt catches the parse error and returns None
ParseError ==
    /\ Answered
    /\ ~is_request_exception(Exception)
    /\ is_parse_error(call.provider, Exception)
    /\ call' = [call EXCEPT !.pc = "returned", !.ret = "None"]
    /\ UNCHANGED providerFrame

\* an exception that no except clause of the callable names leaves it
Escapes ==
    /\ Answered
    /\ Exception \notin {"text", "empty text", "ConnectionError"}
    /\ ~is_request_exception(Exception)
    /\ ~is_parse_error(call.provider, Exception)
    /\ call' = [call EXCEPT !.pc = "raised", !.ret = Exception]
    /\ UNCHANGED providerFrame

\* lines 93 and 150: the stripped text is returned; query_ollama returns the
\* empty text when no chunk held a response
ReturnText ==
    /\ Answered
    /\ Exception \in {"text", "empty text"}
    /\ call' = [call EXCEPT !.pc = "returned", !.ret = Exception]
    /\ UNCHANGED providerFrame

NextProvider ==
    \/ \E response \in Responses(call.provider) : Post(response)
    \/ GiveUp
    \/ Transient
    \/ RequestFailed
    \/ ParseError
    \/ Escapes
    \/ ReturnText

SpecProvider == InitProvider /\ [][NextProvider]_vars

\* the response in hand has a status that asks for a retry
AskedToRetry ==
    /\ call.pc = "answered"
    /\ call.response.kind = "response"
    /\ (call.response.status = 429 \/ call.response.status \in 500..599)

\* the sleep the step has added
LastSleep == call'.slept[Len(call'.slept)]

\* C37: a call of a provider callable sends at most http_retries requests;
\* after a 429 or 5xx response it sleeps the Retry-After seconds or the
\* exponential backoff, plus jitter, and goes on to the next attempt; and
\* when the attempts are used up it returns None and does not raise.
C37_RetriesWithinBudgetThenNone ==
    /\ [](call.posts <= call.http_retries)
    /\ [][AskedToRetry =>
              /\ call'.pc = "loop"
              /\ call'.attempt = call.attempt + 1
              /\ Len(call'.slept) = Len(call.slept) + 1
              /\ LastSleep.jitter \in 0..(HttpJitterTicks - 1)
              /\ LastSleep.base =
                     IF call.provider = "chatgpt" /\ call.response.header.kind = "digits"
                     THEN call.response.header.seconds * QuartersPerSecond
                     ELSE backoff(call.provider, call.attempt)]_vars
    /\ [](call.attempt >= call.http_retries =>
              /\ call.pc \in {"loop", "returned"}
              /\ call.pc = "returned" => call.ret = "None")
    /\ [][(call.pc = "loop" /\ call.attempt >= call.http_retries) =>
              (call'.pc = "returned" /\ call'.ret = "None")]_vars

\* query_chatgpt was answered 503 three times, once with Retry-After, slept
\* each time and returned None after its third request
C37_Witness ==
    /\ call.provider = "chatgpt"
    /\ call.http_retries = MaxHttpRetries
    /\ call.posts = MaxHttpRetries
    /\ call.pc = "returned"
    /\ call.ret = "None"
    /\ call.response.status = 503
    /\ Len(call.slept) = MaxHttpRetries
    /\ \E k \in 1..Len(call.slept) : call.slept[k].base = 2 * QuartersPerSecond
    /\ \E k \in 1..Len(call.slept) : call.slept[k].base = ChatGPTBackoff * 2

\* C38: a 200 response whose body is not what the provider's API sends makes
\* the callable return no result at once: no further request, no sleep,
\* no exception.
C38_MalformedBodyReturnsAtOnce ==
    [][(/\ call.pc = "answered"
        /\ call.response.kind = "response"
        /\ call.response.status = 200
        /\ call.response.body \notin {"completion", "chunks"}) =>
           /\ call'.pc = "returned"
           /\ call'.ret \in {"None", "empty text"}
           /\ call'.posts = call.posts
           /\ call'.slept = call.slept]_vars

(***************************************************************************)
(* import_items: what is created, skipped and counted (lines 81-125).      *)
(***************************************************************************)
\* the step creates an item, or plans to in dry-run mode
Creates == call.pc = "import_loop" /\ call'.created = call.created + 1

\* the items import_items takes the endpoint to hold when its loop begins:
\* none for replace in dry-run mode, those of the server otherwise
TakenToExist == IF call.replace /\ call.dry_run THEN <<>> ELSE call.server

\* the two names are the same but for letter case
SameName(a, b) == lower(a) = lower(b)

\* the places of items that no earlier place has the key of
FirstPlaces ==
    {k \in 1..Len(call.items) :
        \A j \in 1..(k - 1) :
            lower(strip(call.items[j])) # lower(strip(call.items[k]))}

\* the names asked for, each key at its first place only
FirstOccurrences ==
    LET places == SelectSeq([k \in 1..Len(call.items) |-> k],
                            LAMBDA k : k \in FirstPlaces)
    IN [j \in 1..Len(places) |-> call.items[places[j]]]

\* C39: import_items creates or plans an item only when no item it takes the
\* endpoint to hold and no item created earlier in the call has the same name
\* but for letter case; for replace in dry-run mode it takes the endpoint to
\* be empty, so every name asked for is planned as an add the first time it
\* occurs, whatever the server holds; and when the call returns, created,
\* skipped and failed add up to the number of items asked for.
C39_ImportCreatesOnlyNewNames ==
    /\ [][Creates =>
              /\ \A k \in 1..Len(TakenToExist) :
                     TakenToExist[k].name # <<>> =>
                         ~SameName(TakenToExist[k].name, Head(call.queue))
              /\ \A k \in 1..Len(call.added) :
                     ~SameName(call.added[k], Head(call.queue))]_vars
    /\ []((call.op = "import_items" /\ call.pc = "returned"
              /\ call.replace /\ call.dry_run) =>
             /\ call.added = FirstOccurrences
             /\ call.skipped = Len(call.items) - Cardinality(FirstPlaces))
    /\ []((call.op = "import_items" /\ call.pc = "returned") =>
             call.created + call.skipped + call.failed = Len(call.items))

\* replace in dry-run mode against a server that holds Vegan: vegan is
\* planned as an add, not skipped
C39_Witness ==
    /\ call.op = "import_items"
    /\ call.pc = "returned"
    /\ call.replace /\ call.dry_run
    /\ \E k \in 1..Len(call.server) : call.server[k].name = <<"V", "e", "g", "a", "n">>
    /\ call.items[1] = <<"v", "e", "g", "a", "n">>
    /\ call.added = call.items
    /\ call.created = 2 /\ call.skipped = 0 /\ call.failed = 0

====
